---- MODULE Spec2Model ----
(***************************************************************************)
(* A model of the gmaps-scraper core: the run statistics aggregator, the   *)
(* retry wrapper, the email discovery chain with its isolated tab, the     *)
(* record validator / field truncation, and the per-record loop of         *)
(* scrape_all.  Every component has its own specification; the variables   *)
(* of the components a specification does not exercise stay at their      *)
(* initial values.                                                         *)
(*                                                                         *)
(* Python strings are sequences of one-character strings, so that strip(), *)
(* slicing and length are computed and not assumed.  None is the           *)
(* record [val |-> "None"], an exception is a record [exc |-> <class>].    *)
(***************************************************************************)
EXTENDS Integers, Sequences, FiniteSets, TLC

VARIABLES
  \* ---- DataStatistics (utils.py) ----
  total_processed, total_saved, total_skipped, skip_reasons,
  \* ---- retry_on_failure.wrapper (utils.py) ----
  max_retries, delay, attempt, last_exception, r_pc, r_outcome, events,
  \* ---- validate_data / truncate_fields called on a record (utils.py) ----
  data, mode, called, v_result, t_result,
  \* ---- GoogleMapsScraper.scrape_all (gmaps_scraper.py) ----
  VALIDATION_MODE, shutdown_requested, links, site, link_no, s_pc, s_data, rows, flushed, begun,
  \* ---- the driver and EmailFinder.find_email_on_website (gmaps_scraper.py) ----
  window_handles, current_window_handle, page_load_timeout, original_timeout, web,
  original_window, e_email, e_pc, e_result, opened, closed, invoked, found, faults,
  \* ---- a string function of utils.py called on one argument ----
  f_name, f_arg, f_ret,
  \* ---- GoogleMapsScraper.run and cleanup (gmaps_scraper.py) ----
  run_pc, run_driver, run_calls, run_exit, run_links, run_scraped

statsVars == <<total_processed, total_saved, total_skipped, skip_reasons>>
retryVars == <<max_retries, delay, attempt, last_exception, r_pc, r_outcome, events>>
dataVars == <<data, mode, called, v_result, t_result>>
scrapeVars ==
  <<VALIDATION_MODE, shutdown_requested, links, site, link_no, s_pc, s_data, rows, flushed, begun>>
emailVars ==
  <<window_handles, current_window_handle, page_load_timeout, original_timeout, web,
    original_window, e_email, e_pc, e_result, opened, closed, invoked, found, faults>>
funcVars == <<f_name, f_arg, f_ret>>
runVars == <<run_pc, run_driver, run_calls, run_exit, run_links, run_scraped>>
vars == <<statsVars, retryVars, dataVars, scrapeVars, emailVars, funcVars, runVars>>
notStats == <<retryVars, dataVars, scrapeVars, emailVars, funcVars, runVars>>
notRetry == <<statsVars, dataVars, scrapeVars, emailVars, funcVars, runVars>>
notData == <<statsVars, retryVars, scrapeVars, emailVars, funcVars, runVars>>
notStatsNorScrape == <<retryVars, dataVars, emailVars, funcVars, runVars>>
notEmail == <<statsVars, retryVars, dataVars, scrapeVars, funcVars, runVars>>
notFunc == <<statsVars, retryVars, dataVars, scrapeVars, emailVars, runVars>>
notRun == <<statsVars, retryVars, dataVars, scrapeVars, emailVars, funcVars>>

None == [val |-> "None"]

(***************************************************************************)
(* Generic helpers                                                         *)
(***************************************************************************)
Last(s) == s[Len(s)]

RECURSIVE Pow(_, _)
Pow(b, e) == IF e <= 0 THEN 1 ELSE b * Pow(b, e - 1)

(* c * n: the string of n characters c *)
Rep(c, n) == [i \in 1..n |-> c]

(* sep.join(parts), as the list of its pieces *)
RECURSIVE Join(_, _)
Join(parts, sep) ==
  IF Len(parts) = 0 THEN << >>
  ELSE IF Len(parts) = 1 THEN <<parts[1]>>
  ELSE <<parts[1], sep>> \o Join(Tail(parts), sep)

(* str.strip(): the characters Python's str.isspace() accepts in ASCII *)
Whitespace == {" ", "\t", "\n", "\r", "\f"}

(* The positions of the first and the last character strip() keeps. *)
FirstKept(s) ==
  CHOOSE i \in 1..Len(s) : s[i] \notin Whitespace /\ \A j \in 1..(i - 1) : s[j] \in Whitespace
LastKept(s) ==
  CHOOSE i \in 1..Len(s) : s[i] \notin Whitespace /\ \A j \in (i + 1)..Len(s) : s[j] \in Whitespace

Strip_nothing(s) == s
Strip(s) ==
  IF \A i \in 1..Len(s) : s[i] \in Whitespace
    THEN << >>
    ELSE SubSeq(s, FirstKept(s), LastKept(s))

(***************************************************************************)
(* DataStatistics                                                          *)
(***************************************************************************)
MaxProcessed == 6
Reasons ==
  {<<"Missing: ", "email">>, <<"Missing: ", "namaTravel", ", ", "email">>,
   <<"Missing: ", "telepon">>}

DataStatistics_init ==
  /\ total_processed = 0
  /\ total_saved = 0
  /\ total_skipped = 0
  /\ skip_reasons = << >>

(* dict.get(key, default) *)
DictGet(d, k, default) == IF k \in DOMAIN d THEN d[k] ELSE default

(* d[key] = value *)
DictSet(d, k, v) == [x \in (DOMAIN d) \cup {k} |-> IF x = k THEN v ELSE d[x]]

add_saved_forgets_processed ==
  /\ total_saved' = total_saved + 1
  /\ UNCHANGED <<total_processed, total_skipped, skip_reasons>>

add_saved ==
  /\ total_processed' = total_processed + 1
  /\ total_saved' = total_saved + 1
  /\ UNCHANGED <<total_skipped, skip_reasons>>

add_skipped_forgets_processed(reason) ==
  /\ total_skipped' = total_skipped + 1
  /\ skip_reasons' = DictSet(skip_reasons, reason, DictGet(skip_reasons, reason, 0) + 1)
  /\ UNCHANGED <<total_processed, total_saved>>

add_skipped_forgets_reason(reason) ==
  /\ total_processed' = total_processed + 1
  /\ total_skipped' = total_skipped + 1
  /\ UNCHANGED <<total_saved, skip_reasons>>

add_skipped(reason) ==
  /\ total_processed' = total_processed + 1
  /\ total_skipped' = total_skipped + 1
  /\ skip_reasons' = DictSet(skip_reasons, reason, DictGet(skip_reasons, reason, 0) + 1)
  /\ UNCHANGED total_saved

(* get_success_rate, lines 608-617, as the exact fraction num / den: the    *)
(* float it returns is this value rounded to the nearest double, and       *)
(* rounding keeps 0, 75 and 100 and the order of values.                   *)
get_success_rate_without_percent ==
  IF total_processed = 0
    THEN [num |-> 0, den |-> 1]
    ELSE [num |-> total_saved, den |-> total_processed]

get_success_rate ==
  IF total_processed = 0
    THEN [num |-> 0, den |-> 1]
    ELSE [num |-> total_saved * 100, den |-> total_processed]

StatsAddSaved ==
  /\ total_processed < MaxProcessed
  /\ add_saved
  /\ UNCHANGED notStats

StatsAddSkipped ==
  /\ total_processed < MaxProcessed
  /\ \E reason \in Reasons : add_skipped(reason)
  /\ UNCHANGED notStats

(***************************************************************************)
(* retry_on_failure                                                        *)
(***************************************************************************)
BACKOFF_FACTOR == 2

MaxRetriesArg == 3
MaxDelayArg == 3
RetriesArgs == (-1)..MaxRetriesArg
DelayArgs == 1..MaxDelayArg
FuncResults == {[val |-> "ok"], None}
FuncExceptions == {[exc |-> "SearchError"], [exc |-> "TimeoutException"]}
TypeError == [exc |-> "TypeError"]

RetryIdle ==
  /\ max_retries = 0
  /\ delay = 0
  /\ attempt = 0
  /\ last_exception = None
  /\ r_pc = "idle"
  /\ r_outcome = None
  /\ events = << >>

(* A call of the wrapper with the decorator's arguments: line 73. *)
RetryInit ==
  /\ max_retries \in RetriesArgs
  /\ delay \in DelayArgs
  /\ attempt = 0
  /\ last_exception = None
  /\ r_pc = "for"
  /\ r_outcome = None
  /\ events = << >>

(* for attempt in range(max_retries) *)
InRange_off_by_one(a, n) == a <= n
InRange(a, n) == a < n

(* wait_time = delay * (BACKOFF_FACTOR ** attempt) *)
WaitTime_one_power_ahead(d, a) == d * Pow(BACKOFF_FACTOR, a + 1)
WaitTime(d, a) == d * Pow(BACKOFF_FACTOR, a)

(* if attempt < max_retries - 1 *)
WillRetry(a, n) == a < n - 1

(* last_exception = e *)
Remember_first(old, e) == IF old = None THEN e ELSE old
Remember(old, e) == e

(* raise last_exception: raising None is itself a TypeError *)
Raise(e) == IF e = None THEN TypeError ELSE e

(* The head of the for loop; when the range is exhausted, line 96. *)
RetryFor ==
  /\ r_pc = "for"
  /\ IF InRange(attempt, max_retries)
       THEN /\ r_pc' = "try"
            /\ UNCHANGED r_outcome
       ELSE /\ r_pc' = "raised"
            /\ r_outcome' = Raise(last_exception)
  /\ UNCHANGED <<max_retries, delay, attempt, last_exception, events>>
  /\ UNCHANGED notRetry

(* return func(...), the call succeeding: line 77 *)
RetryCallReturns ==
  /\ r_pc = "try"
  /\ \E v \in FuncResults :
       /\ events' = Append(events, [ev |-> "call", number |-> attempt, ok |-> TRUE, val |-> v])
       /\ r_outcome' = v
  /\ r_pc' = "returned"
  /\ UNCHANGED <<max_retries, delay, attempt, last_exception>>
  /\ UNCHANGED notRetry

(* func raises: the except branch, lines 79-93 *)
RetryCallRaises ==
  /\ r_pc = "try"
  /\ \E e \in FuncExceptions :
       /\ events' = Append(events, [ev |-> "call", number |-> attempt, ok |-> FALSE, val |-> e])
       /\ last_exception' = Remember(last_exception, e)
  /\ IF WillRetry(attempt, max_retries)
       THEN /\ r_pc' = "sleep"
            /\ UNCHANGED attempt
       ELSE /\ r_pc' = "for"
            /\ attempt' = attempt + 1
  /\ UNCHANGED <<max_retries, delay, r_outcome>>
  /\ UNCHANGED notRetry

(* time.sleep(wait_time), then the next iteration *)
RetrySleep ==
  /\ r_pc = "sleep"
  /\ events' = Append(events, [ev |-> "sleep", number |-> attempt, ok |-> TRUE,
                               val |-> WaitTime(delay, attempt)])
  /\ attempt' = attempt + 1
  /\ r_pc' = "for"
  /\ UNCHANGED <<max_retries, delay, last_exception, r_outcome>>
  /\ UNCHANGED notRetry

(***************************************************************************)
(* Records, validation policies and field lengths (constants.py, config.py)*)
(***************************************************************************)
CSV_HEADER_NAMA == "namaTravel"
CSV_HEADER_ALAMAT == "alamat"
CSV_HEADER_KOTA == "kota"
CSV_HEADER_TELEPON == "telepon"
CSV_HEADER_DESKRIPSI == "deskripsi"
CSV_HEADER_WEBSITE == "websiteUrl"
CSV_HEADER_LOGO == "logoUrl"
CSV_HEADER_EMAIL == "email"
CSV_HEADER_MAP_URL == "mapUrl"

CSV_HEADERS ==
  <<CSV_HEADER_NAMA, CSV_HEADER_ALAMAT, CSV_HEADER_KOTA, CSV_HEADER_TELEPON,
    CSV_HEADER_DESKRIPSI, CSV_HEADER_WEBSITE, CSV_HEADER_LOGO, CSV_HEADER_EMAIL,
    CSV_HEADER_MAP_URL>>

Fields == {CSV_HEADERS[i] : i \in 1..Len(CSV_HEADERS)}

VALIDATION_MODE_STRICT == "STRICT"
VALIDATION_MODE_MODERATE == "MODERATE"
VALIDATION_MODE_LENIENT == "LENIENT"
VALIDATION_MODE_NONE == "NONE"

VALIDATION_MODES ==
  {VALIDATION_MODE_STRICT, VALIDATION_MODE_MODERATE, VALIDATION_MODE_LENIENT,
   VALIDATION_MODE_NONE}

VALIDATION_RULES_none_requires_name ==
  [m \in {VALIDATION_MODE_STRICT, VALIDATION_MODE_MODERATE, VALIDATION_MODE_LENIENT,
           VALIDATION_MODE_NONE} |->
     CASE m = VALIDATION_MODE_STRICT -> CSV_HEADERS
       [] m = VALIDATION_MODE_MODERATE ->
            <<CSV_HEADER_NAMA, CSV_HEADER_WEBSITE, CSV_HEADER_EMAIL>>
       [] m = VALIDATION_MODE_LENIENT ->
            <<CSV_HEADER_NAMA, CSV_HEADER_TELEPON>>
       [] m = VALIDATION_MODE_NONE -> <<CSV_HEADER_NAMA>>]

VALIDATION_RULES ==
  [m \in {VALIDATION_MODE_STRICT, VALIDATION_MODE_MODERATE, VALIDATION_MODE_LENIENT,
           VALIDATION_MODE_NONE} |->
     CASE m = VALIDATION_MODE_STRICT ->
            <<CSV_HEADER_NAMA, CSV_HEADER_ALAMAT, CSV_HEADER_KOTA, CSV_HEADER_TELEPON,
              CSV_HEADER_DESKRIPSI, CSV_HEADER_WEBSITE, CSV_HEADER_LOGO,
              CSV_HEADER_EMAIL, CSV_HEADER_MAP_URL>>
       [] m = VALIDATION_MODE_MODERATE ->
            <<CSV_HEADER_NAMA, CSV_HEADER_WEBSITE, CSV_HEADER_EMAIL>>
       [] m = VALIDATION_MODE_LENIENT ->
            <<CSV_HEADER_NAMA, CSV_HEADER_TELEPON>>
       [] m = VALIDATION_MODE_NONE -> << >>]

MAX_LENGTH_NAMA == 256
MAX_LENGTH_ALAMAT == 512
MAX_LENGTH_KOTA == 100
MAX_LENGTH_TELEPON == 50
MAX_LENGTH_DESKRIPSI == 512
MAX_LENGTH_WEBSITE == 256
MAX_LENGTH_LOGO == 256
MAX_LENGTH_EMAIL == 256
MAX_LENGTH_MAP_URL == 512

MAX_FIELD_LENGTH ==
  [f \in Fields |->
     CASE f = CSV_HEADER_NAMA -> MAX_LENGTH_NAMA
       [] f = CSV_HEADER_ALAMAT -> MAX_LENGTH_ALAMAT
       [] f = CSV_HEADER_KOTA -> MAX_LENGTH_KOTA
       [] f = CSV_HEADER_TELEPON -> MAX_LENGTH_TELEPON
       [] f = CSV_HEADER_DESKRIPSI -> MAX_LENGTH_DESKRIPSI
       [] f = CSV_HEADER_WEBSITE -> MAX_LENGTH_WEBSITE
       [] f = CSV_HEADER_LOGO -> MAX_LENGTH_LOGO
       [] f = CSV_HEADER_EMAIL -> MAX_LENGTH_EMAIL
       [] f = CSV_HEADER_MAP_URL -> MAX_LENGTH_MAP_URL]

(***************************************************************************)
(* validate_data and truncate_fields (utils.py)                            *)
(***************************************************************************)

EffectiveMode_falls_to_none(m) ==
  IF m \notin VALIDATION_MODES THEN VALIDATION_MODE_NONE ELSE m
(* if mode not in const.VALIDATION_MODES: mode = MODERATE *)
EffectiveMode(m) == IF m \notin VALIDATION_MODES THEN VALIDATION_MODE_MODERATE ELSE m

(* value = data.get(field, "").strip(); if not value *)
IsMissing(d, field) == Strip(DictGet(d, field, << >>)) = << >>

(* missing_fields, in the order of required_fields *)
MissingFields(d, required_fields) ==
  LET Missing(field) == IsMissing(d, field)
  IN  SelectSeq(required_fields, Missing)

(* The pair (is_valid, reason); reason is the list of the pieces the       *)
(* f-string and ", ".join put together.                                    *)
validate_data(d, m) ==
  LET required_fields == VALIDATION_RULES[EffectiveMode(m)]
      missing_fields == MissingFields(d, required_fields)
  IN  IF required_fields = << >> THEN <<TRUE, <<"No validation required">>>>
      ELSE IF missing_fields # << >>
             THEN <<FALSE, <<"Missing: ">> \o Join(missing_fields, ", ")>>
             ELSE <<TRUE, <<"Valid">>>>

Ellipsis == <<".", ".", ".">>

(* value[:max_len - 3] + "..." when value and len(value) > max_len *)
TruncateValue_keeps_max_len(value, max_len) ==
  IF value # << >> /\ Len(value) > max_len
    THEN SubSeq(value, 1, max_len) \o Ellipsis
    ELSE value

TruncateValue(value, max_len) ==
  IF value # << >> /\ Len(value) > max_len
    THEN SubSeq(value, 1, max_len - 3) \o Ellipsis
    ELSE value

truncate_fields_nothing(d) == d
truncate_fields(d) ==
  [key \in DOMAIN d |->
     IF key \in DOMAIN MAX_FIELD_LENGTH
       THEN TruncateValue(d[key], MAX_FIELD_LENGTH[key])
       ELSE d[key]]

(***************************************************************************)
(* Calls of validate_data and truncate_fields on input records.  A record  *)
(* is given by the set of its filled fields, the form its other fields     *)
(* take (absent, empty, blank, over-long blank) and the form of the filled *)
(* ones (short, padded with spaces, of the maximum length, one longer).    *)
(***************************************************************************)
BlankKinds == {"absent", "empty", "blank", "overlong blank"}
FillKinds == {"short", "padded", "max length", "overlong"}
ModeArgs == VALIDATION_MODES \cup {"strict", "BOGUS"}

BlankValue(kind, f) ==
  CASE kind = "empty" -> << >>
    [] kind = "blank" -> <<" ", "\t">>
    [] kind = "overlong blank" -> Rep(" ", MAX_FIELD_LENGTH[f] + 1)

FillValue(kind, f) ==
  CASE kind = "short" -> <<"P", "T">>
    [] kind = "padded" -> <<" ", "P", "T", " ">>
    [] kind = "max length" -> Rep("A", MAX_FIELD_LENGTH[f])
    [] kind = "overlong" -> Rep("A", MAX_FIELD_LENGTH[f] + 1)

MakeRecord(filled, blankKind, fillKind) ==
  [f \in (IF blankKind = "absent" THEN filled ELSE Fields) |->
     IF f \in filled THEN FillValue(fillKind, f) ELSE BlankValue(blankKind, f)]

NoResult == <<FALSE, << >>>>

DataIdle ==
  /\ data = << >>
  /\ mode = VALIDATION_MODE_MODERATE
  /\ called = "nothing"
  /\ v_result = NoResult
  /\ t_result = << >>

DataInit ==
  /\ \E filled \in SUBSET Fields, blankKind \in BlankKinds, fillKind \in FillKinds :
       data = MakeRecord(filled, blankKind, fillKind)
  /\ mode = VALIDATION_MODE_MODERATE
  /\ called = "nothing"
  /\ v_result = NoResult
  /\ t_result = << >>

(* validate_data(data, m) *)
CallValidateData ==
  /\ called = "nothing"
  /\ called' = "validate_data"
  /\ \E m \in ModeArgs :
       /\ mode' = m
       /\ v_result' = validate_data(data, m)
  /\ UNCHANGED <<data, t_result>>
  /\ UNCHANGED notData

(* truncate_fields(data) *)
CallTruncateFields ==
  /\ called = "nothing"
  /\ called' = "truncate_fields"
  /\ t_result' = truncate_fields(data)
  /\ UNCHANGED <<data, mode, v_result>>
  /\ UNCHANGED notData

(***************************************************************************)
(* String functions the scraper uses (Python str and re)                   *)
(***************************************************************************)
Digits == {"0", "1", "2", "3", "4", "5", "6", "7", "8", "9"}

(* c in s *)
Contains(s, c) == \E k \in 1..Len(s) : s[k] = c

(* s.split(c, 1)[1]: what follows the first c *)
AfterFirst(s, c) ==
  LET k == CHOOSE k \in 1..Len(s) : s[k] = c /\ \A j \in 1..(k - 1) : s[j] # c
  IN  SubSeq(s, k + 1, Len(s))

(* s.split(c): the segments between the occurrences of c *)
RECURSIVE Split(_, _)
Split(s, c) ==
  IF ~Contains(s, c) THEN <<s>>
  ELSE LET k == CHOOSE k \in 1..Len(s) : s[k] = c /\ \A j \in 1..(k - 1) : s[j] # c
       IN  <<SubSeq(s, 1, k - 1)>> \o Split(SubSeq(s, k + 1, Len(s)), c)

(* s.split(): the maximal runs of characters that are not whitespace *)
RECURSIVE Words(_)
Words(s) ==
  LET t == Strip(s)
  IN  IF t = << >> THEN << >>
      ELSE IF \A k \in 1..Len(t) : t[k] \notin Whitespace THEN <<t>>
      ELSE LET k == CHOOSE k \in 1..Len(t) :
                      t[k] \in Whitespace /\ \A j \in 1..(k - 1) : t[j] \notin Whitespace
           IN  <<SubSeq(t, 1, k - 1)>> \o Words(SubSeq(t, k + 1, Len(t)))

(* re.match(r'^\d+$', s) *)
AllDigits(s) == s # << >> /\ \A k \in 1..Len(s) : s[k] \in Digits

(* seq[-k] *)
FromEnd(seq, k) == seq[Len(seq) - k + 1]

StripEach(parts) == [k \in 1..Len(parts) |-> Strip(parts[k])]

(* extract_city_from_address: parts[-1].split()[-1] raises IndexError for  *)
(* a blank last segment, which the except clause turns into "".            *)
extract_city_from_address(address) ==
  IF address = << >> THEN << >>
  ELSE LET parts == StripEach(Split(address, ","))
       IN  IF Len(parts) > 1
             THEN IF Words(FromEnd(parts, 1)) = << >>
                    THEN << >>
                    ELSE IF AllDigits(FromEnd(Words(FromEnd(parts, 1)), 1)) /\ Len(parts) > 2
                           THEN FromEnd(parts, 3)
                           ELSE FromEnd(parts, 2)
             ELSE << >>

(* re.sub(PHONE_CLEANUP_PATTERN, '', phone): the characters [^\d+\s()-]    *)
(* are dropped.                                                            *)
PhoneKept(c) == c \in Digits \cup Whitespace \cup {"+", "(", ")", "-"}

format_phone_number(phone) ==
  IF phone = << >> THEN << >> ELSE Strip(SelectSeq(Strip(phone), PhoneKept))

(***************************************************************************)
(* validate_email and extract_email_from_text (utils.py, constants.py)     *)
(***************************************************************************)
LowerLetters == <<"a", "b", "c", "d", "e", "f", "g", "h", "i", "j", "k", "l", "m", "n", "o", "p", "q", "r", "s", "t", "u", "v", "w", "x", "y", "z">>
UpperLetters == <<"A", "B", "C", "D", "E", "F", "G", "H", "I", "J", "K", "L", "M", "N", "O", "P", "Q", "R", "S", "T", "U", "V", "W", "X", "Y", "Z">>
Letters == {LowerLetters[k] : k \in 1..26} \cup {UpperLetters[k] : k \in 1..26}
Alnum == Letters \cup Digits
LocalChars == Alnum \cup {".", "_", "%", "+", "-"}
DomainChars == Alnum \cup {".", "-"}

(* str.lower() *)
LowerChar(c) ==
  IF \E k \in 1..26 : UpperLetters[k] = c
    THEN LowerLetters[CHOOSE k \in 1..26 : UpperLetters[k] = c]
    ELSE c
Lower(s) == [k \in 1..Len(s) |-> LowerChar(s[k])]

(* pat in s *)
IsSubstring(pat, s) ==
  \E k \in 0..(Len(s) - Len(pat)) : SubSeq(s, k + 1, k + Len(pat)) = pat

(* s.replace(pat, '') *)
RECURSIVE RemoveAll(_, _)
RemoveAll(s, pat) ==
  IF Len(s) < Len(pat) THEN s
  ELSE IF SubSeq(s, 1, Len(pat)) = pat THEN RemoveAll(SubSeq(s, Len(pat) + 1, Len(s)), pat)
  ELSE <<Head(s)>> \o RemoveAll(Tail(s), pat)

EMAIL_MIN_LENGTH == 5
EMAIL_MAX_LENGTH == 256
LocalMaxMore == 63

EMAIL_BLACKLIST ==
  {<<"e", "x", "a", "m", "p", "l", "e", ".", "c", "o", "m">>, <<"d", "o", "m", "a", "i", "n", ".", "c", "o", "m">>, <<"t", "e", "s", "t", ".", "c", "o", "m">>, <<"s", "a", "m", "p", "l", "e", ".", "c", "o", "m">>,
   <<"y", "o", "u", "r", "-", "d", "o", "m", "a", "i", "n", ".", "c", "o", "m">>, <<"y", "o", "u", "r", "d", "o", "m", "a", "i", "n", ".", "c", "o", "m">>, <<"w", "e", "b", "s", "i", "t", "e", ".", "c", "o", "m">>}

EMAIL_IMAGE_EXTENSIONS ==
  {<<".", "p", "n", "g">>, <<".", "j", "p", "g">>, <<".", "j", "p", "e", "g">>, <<".", "g", "i", "f">>, <<".", "s", "v", "g">>, <<".", "w", "e", "b", "p">>,
   <<".", "b", "m", "p">>, <<".", "i", "c", "o">>}

(* EMAIL_PATTERN against the whole of s: an alphanumeric, up to 63 more    *)
(* local characters, "@", an alphanumeric, one or more domain characters,  *)
(* ".", two or more letters.                                               *)
FullMatch(s) ==
  \E at \in 2..Len(s) :
    /\ s[at] = "@"
    /\ at - 2 <= LocalMaxMore
    /\ s[1] \in Alnum
    /\ \A k \in 2..(at - 1) : s[k] \in LocalChars
    /\ at + 1 <= Len(s)
    /\ s[at + 1] \in Alnum
    /\ \E dot \in (at + 3)..(Len(s) - 2) :
         /\ s[dot] = "."
         /\ \A k \in (at + 2)..(dot - 1) : s[k] \in DomainChars
         /\ \A k \in (dot + 1)..Len(s) : s[k] \in Letters

(* re.match(EMAIL_PATTERN, s): "$" also matches before a final newline *)
MatchesEmailPattern(s) ==
  \/ FullMatch(s)
  \/ s # << >> /\ s[Len(s)] = "\n" /\ FullMatch(SubSeq(s, 1, Len(s) - 1))

SkipBlacklist(email_lower) == FALSE
(* for blacklisted in EMAIL_BLACKLIST: if blacklisted in email_lower *)
Blacklisted(email_lower) == \E b \in EMAIL_BLACKLIST : IsSubstring(b, email_lower)

(* for ext in EMAIL_IMAGE_EXTENSIONS: if ext in email_lower *)
HasImageExtension(email_lower) == \E x \in EMAIL_IMAGE_EXTENSIONS : IsSubstring(x, email_lower)

validate_email(email) ==
  /\ email # << >>
  /\ Len(email) >= EMAIL_MIN_LENGTH
  /\ Len(email) <= EMAIL_MAX_LENGTH
  /\ MatchesEmailPattern(email)
  /\ ~Blacklisted(Lower(email))
  /\ ~HasImageExtension(Lower(email))

(* The end of the match of EMAIL_EXTRACT_PATTERN that starts at position   *)
(* from, 0 when there is none.  Quantifiers are greedy: the local part     *)
(* runs up to the "@", the domain to the last "." of the run of domain     *)
(* characters that two letters follow, the final letters as far as they go.*)
MatchEnd(text, from) ==
  LET n == Len(text)
      at == IF \E k \in (from + 1)..n : text[k] \notin LocalChars
              THEN CHOOSE k \in (from + 1)..n :
                     text[k] \notin LocalChars /\ \A j \in (from + 1)..(k - 1) : text[j] \in LocalChars
              ELSE 0
      runEnd == IF \E k \in (at + 2)..n : text[k] \notin DomainChars
                  THEN (CHOOSE k \in (at + 2)..n :
                          text[k] \notin DomainChars
                            /\ \A j \in (at + 2)..(k - 1) : text[j] \in DomainChars) - 1
                  ELSE n
      dots == {d \in (at + 3)..(runEnd - 2) :
                 text[d] = "." /\ text[d + 1] \in Letters /\ text[d + 2] \in Letters}
      dot == CHOOSE d \in dots : \A e \in dots : e <= d
      lettersEnd == IF \E k \in (dot + 1)..n : text[k] \notin Letters
                      THEN (CHOOSE k \in (dot + 1)..n :
                              text[k] \notin Letters
                                /\ \A j \in (dot + 1)..(k - 1) : text[j] \in Letters) - 1
                      ELSE n
  IN  IF /\ text[from] \in Alnum
         /\ at # 0
         /\ text[at] = "@"
         /\ at - from - 1 <= LocalMaxMore
         /\ at + 1 <= n
         /\ text[at + 1] \in Alnum
         /\ dots # {}
        THEN lettersEnd
        ELSE 0

(* re.findall(EMAIL_EXTRACT_PATTERN, text), scanning on from position pos: *)
(* the leftmost match, then the matches of what follows it.  ends[k] is    *)
(* the end of the match that starts at k.                                  *)
RECURSIVE FindAllFrom(_, _, _)
FindAllFrom(text, ends, pos) ==
  IF \A k \in pos..Len(text) : ends[k] = 0 THEN << >>
  ELSE LET start == CHOOSE k \in pos..Len(text) :
                      ends[k] # 0 /\ \A j \in pos..(k - 1) : ends[j] = 0
       IN  <<SubSeq(text, start, ends[start])>> \o FindAllFrom(text, ends, ends[start] + 1)

FindAll(text) == FindAllFrom(text, [k \in 1..Len(text) |-> MatchEnd(text, k)], 1)

(* Python's None where a string is expected *)
NoneText == <<"<None>">>

FirstValid_takes_first_match(matches) == IF matches = << >> THEN NoneText ELSE matches[1]
(* The first match that is valid, valid[k] telling whether matches[k] is *)
FirstValidOf(matches, valid) ==
  IF \E k \in 1..Len(matches) : valid[k]
    THEN matches[CHOOSE k \in 1..Len(matches) : valid[k] /\ \A j \in 1..(k - 1) : ~valid[j]]
    ELSE NoneText

(* for match in matches: if validate_email(match): return match *)
FirstValid(matches) ==
  FirstValidOf(matches, [k \in 1..Len(matches) |-> validate_email(matches[k])])

extract_email_from_text(text) ==
  IF text = << >> THEN NoneText ELSE FirstValid(FindAll(Lower(text)))

(***************************************************************************)
(* GoogleMapsScraper.scrape_detail_page (gmaps_scraper.py)                 *)
(*                                                                         *)
(* What the browser shows for a link is a page: whether driver.get raises, *)
(* the text or attribute of each element (NoElement when find_element      *)
(* raises), and what find_email_on_website gives for the page's website    *)
(* (a string, or EmailRaises when it raises).                              *)
(***************************************************************************)
NoElement == <<"<no element>">>
EmailRaises == <<"<raises>">>

(* safe_find_element: value.strip() if value else default *)
safe_find_element(raw) == IF raw = NoElement \/ raw = << >> THEN << >> ELSE Strip(raw)

EmptyRecord(url) == [f \in Fields |-> IF f = CSV_HEADER_MAP_URL THEN url ELSE << >>]

EmailGuard_ignores_website(website) == TRUE
(* if data[CSV_HEADER_WEBSITE] and self.email_finder *)
EmailGuard(website) == website # << >>

scrape_detail_page(url, page) ==
  LET nama == safe_find_element(page.name)
      address_raw == safe_find_element(page.address)
      alamat == IF address_raw # << >> /\ Contains(address_raw, ":")
                  THEN Strip(AfterFirst(address_raw, ":")) ELSE << >>
      kota == IF alamat # << >> THEN extract_city_from_address(alamat) ELSE << >>
      phone_raw == safe_find_element(page.phone)
      telepon == IF phone_raw # << >> /\ Contains(phone_raw, ":")
                   THEN format_phone_number(AfterFirst(phone_raw, ":")) ELSE << >>
      deskripsi == safe_find_element(page.category)
      website == safe_find_element(page.website)
      logo == safe_find_element(page.logo)
      email == IF EmailGuard(website) /\ page.email # EmailRaises THEN page.email ELSE << >>
  IN  IF ~page.get_ok THEN EmptyRecord(url)
      ELSE [f \in Fields |->
              CASE f = CSV_HEADER_NAMA -> nama
                [] f = CSV_HEADER_ALAMAT -> alamat
                [] f = CSV_HEADER_KOTA -> kota
                [] f = CSV_HEADER_TELEPON -> telepon
                [] f = CSV_HEADER_DESKRIPSI -> deskripsi
                [] f = CSV_HEADER_WEBSITE -> website
                [] f = CSV_HEADER_LOGO -> logo
                [] f = CSV_HEADER_EMAIL -> email
                [] f = CSV_HEADER_MAP_URL -> url]

(* Pages of the model's web. *)
PageComplete ==
  [get_ok |-> TRUE,
   name |-> <<" ", "P", "T", " ", "A", "b", "a", "d", "i", " ">>,
   address |-> <<"A", "d", "d", "r", "e", "s", "s", ":", " ", "J", "l", ".", " ", "A", " ", "N", "o", ".", "5", ",", " ", "B", "a", "n", "d", "u", "n", "g", ",", " ", "J", "a", "w", "a", " ", "B", "a", "r", "a", "t", " ", "4", "0", "1", "2", "3">>,
   phone |-> <<"P", "h", "o", "n", "e", ":", " ", "+", "6", "2", " ", "2", "1", "-", "5", "5", "5", " ", "e", "x", "t", ".", "1">>,
   category |-> <<"T", "r", "a", "v", "e", "l">>,
   website |-> <<"h", "t", "t", "p", ":", "/", "/", "a", ".", "c", "o">>,
   logo |-> <<"h", "t", "t", "p", ":", "/", "/", "a", ".", "c", "o", "/", "l">>,
   email |-> <<"c", "s", "@", "a", "b", "a", "d", "i", ".", "c", "o">>]

PageNoEmail == [PageComplete EXCEPT !.email = << >>]
PageEmailRaises == [PageComplete EXCEPT !.email = EmailRaises]
PageNoWebsite == [PageComplete EXCEPT !.website = NoElement, !.phone = NoElement]
PageGetFails == [PageComplete EXCEPT !.get_ok = FALSE]
PageLongName ==
  [PageComplete EXCEPT !.name = Rep("A", MAX_LENGTH_NAMA + 44),
                       !.address = <<"A", "l", "a", "m", "a", "t", ":", " ", "J", "l", ".", " ", "B", ",", " ", "J", "a", "k", "a", "r", "t", "a", " ", "P", "u", "s", "a", "t", ",", " ", "D", "K", "I", " ", "J", "a", "k", "a", "r", "t", "a">>]
PageBare ==
  [get_ok |-> TRUE, name |-> <<"T", "o", "k", "o">>, address |-> NoElement, phone |-> <<"n", "o", " ", "c", "o", "l", "o", "n">>,
   category |-> << >>, website |-> NoElement, logo |-> NoElement, email |-> << >>]

Pages ==
  {PageComplete, PageNoEmail, PageEmailRaises, PageNoWebsite, PageGetFails, PageLongName,
   PageBare}

(***************************************************************************)
(* GoogleMapsScraper.scrape_all and the SIGINT handler (gmaps_scraper.py)  *)
(***************************************************************************)
FLUSH_INTERVAL == 10
MaxLinks == 2

DigitChar(k) == <<"0", "1", "2", "3", "4", "5", "6", "7", "8", "9">>[k + 1]
LinkUrl(k) ==
  <<"m", "a", "p", "s", "/">>
    \o (IF k < 10 THEN <<DigitChar(k)>> ELSE <<DigitChar(k \div 10), DigitChar(k % 10)>>)

ConfiguredModes == VALIDATION_MODES \cup {"strict"}

ScrapeIdle ==
  /\ VALIDATION_MODE = VALIDATION_MODE_MODERATE
  /\ shutdown_requested = FALSE
  /\ links = << >>
  /\ site = << >>
  /\ link_no = 0
  /\ s_pc = "idle"
  /\ s_data = << >>
  /\ rows = << >>
  /\ flushed = 0
  /\ begun = << >>

(* config.py as written, before the module is loaded: the value given to  *)
(* VALIDATION_MODE; and the links of the scrape_all call to come with the  *)
(* page behind each.                                                       *)
ScrapeInit ==
  /\ VALIDATION_MODE \in ConfiguredModes
  /\ shutdown_requested = FALSE
  /\ \E n \in 0..MaxLinks :
       /\ links = [k \in 1..n |-> LinkUrl(k)]
       /\ site \in [1..n -> Pages]
  /\ link_no = 0
  /\ s_pc = "import"
  /\ s_data = << >>
  /\ rows = << >>
  /\ flushed = 0
  /\ begun = << >>

(* validate_config: if cls.VALIDATION_MODE not in const.VALIDATION_MODES:  *)
(* cls.VALIDATION_MODE = MODERATE                                          *)
validate_config(m) == IF m \notin VALIDATION_MODES THEN VALIDATION_MODE_MODERATE ELSE m

(* config.py line 298: ScraperConfig.validate_config() on module load *)
ConfigModuleLoad ==
  /\ s_pc = "import"
  /\ VALIDATION_MODE' = validate_config(VALIDATION_MODE)
  /\ s_pc' = "loaded"
  /\ UNCHANGED <<shutdown_requested, links, site, link_no, s_data, rows, flushed, begun>>
  /\ UNCHANGED statsVars
  /\ UNCHANGED notStatsNorScrape

(* ScraperConfig.VALIDATION_MODE is assigned after the module is loaded,   *)
(* as main() does with the menu choice (line 896); nothing validates the   *)
(* assigned value.                                                         *)
SetValidationMode ==
  /\ s_pc = "loaded"
  /\ \E m \in ConfiguredModes : VALIDATION_MODE' = m
  /\ s_pc' = "start"
  /\ UNCHANGED <<shutdown_requested, links, site, link_no, s_data, rows, flushed, begun>>
  /\ UNCHANGED statsVars
  /\ UNCHANGED notStatsNorScrape

(* signal_handler: shutdown_requested = True *)
signal_handler ==
  /\ s_pc \in {"start", "for", "scrape", "validate"}
  /\ shutdown_requested' = TRUE
  /\ UNCHANGED <<VALIDATION_MODE, links, site, link_no, s_pc, s_data, rows, flushed, begun>>
  /\ UNCHANGED statsVars
  /\ UNCHANGED notStatsNorScrape

(* Lines 614-629: VALIDATION_RULES[VALIDATION_MODE] raises KeyError for an *)
(* unknown mode; otherwise the statistics are created, the file opened and *)
(* the header written.                                                     *)
ScrapeAllStart ==
  /\ s_pc \in {"loaded", "start"}
  /\ s_pc' = IF VALIDATION_MODE \in DOMAIN VALIDATION_RULES THEN "for" ELSE "KeyError"
  /\ UNCHANGED <<VALIDATION_MODE, shutdown_requested, links, site, link_no, s_data, rows, flushed,
                 begun>>
  /\ UNCHANGED statsVars
  /\ UNCHANGED notStatsNorScrape

BreakOnShutdown_never(flag) == FALSE
(* if shutdown_requested: break *)
BreakOnShutdown(flag) == flag

(* Lines 631-635: the next link, or the end of the loop; leaving the with  *)
(* block closes the file, which writes out what is buffered.               *)
ScrapeAllFor ==
  /\ s_pc = "for"
  /\ IF link_no < Len(links) /\ ~BreakOnShutdown(shutdown_requested)
       THEN /\ link_no' = link_no + 1
            /\ begun' = Append(begun, [link |-> links[link_no + 1], shutdown |-> shutdown_requested])
            /\ s_pc' = "scrape"
            /\ UNCHANGED flushed
       ELSE /\ s_pc' = "done"
            /\ flushed' = Len(rows)
            /\ UNCHANGED <<link_no, begun>>
  /\ UNCHANGED <<VALIDATION_MODE, shutdown_requested, links, site, s_data, rows>>
  /\ UNCHANGED statsVars
  /\ UNCHANGED notStatsNorScrape

(* Lines 638-641: data = truncate_fields(self.scrape_detail_page(link)) *)
ScrapeAllScrape ==
  /\ s_pc = "scrape"
  /\ s_data' = truncate_fields(scrape_detail_page(links[link_no], site[link_no]))
  /\ s_pc' = "validate"
  /\ UNCHANGED <<VALIDATION_MODE, shutdown_requested, links, site, link_no, rows, flushed, begun>>
  /\ UNCHANGED statsVars
  /\ UNCHANGED notStatsNorScrape

(* if stats.total_saved % ScraperConfig.FLUSH_INTERVAL == 0, evaluated      *)
(* after stats.add_saved()                                                 *)
FlushDue_on_processed == total_processed' % FLUSH_INTERVAL = 0
FlushDue == total_saved' % FLUSH_INTERVAL = 0

WrittenRow_before_email(d) == [f \in Fields \ {CSV_HEADER_EMAIL, CSV_HEADER_MAP_URL} |-> d[f]]
(* writer.writerow(data) *)
WrittenRow(d) == d

(* Lines 644-677: validate, then write and count, or skip and count. *)
ScrapeAllValidate ==
  /\ s_pc = "validate"
  /\ LET res == validate_data(s_data, VALIDATION_MODE)
     IN  IF res[1]
           THEN /\ rows' = Append(rows, WrittenRow(s_data))
                /\ add_saved
                /\ flushed' = IF FlushDue THEN Len(rows) + 1 ELSE flushed
           ELSE /\ add_skipped(res[2])
                /\ UNCHANGED <<rows, flushed>>
  /\ s_pc' = "for"
  /\ UNCHANGED <<VALIDATION_MODE, shutdown_requested, links, site, link_no, s_data, begun>>
  /\ UNCHANGED notStatsNorScrape

(***************************************************************************)
(* EmailFinder (gmaps_scraper.py): the three strategies                    *)
(*                                                                         *)
(* A website is what the driver reads from it: the href of each anchor the *)
(* mailto XPath selects, the page source, and for each of the five XPaths  *)
(* of _find_in_visible_elements the texts of the elements it selects.      *)
(* A strategy's driver call may raise; the strategy catches it.            *)
(***************************************************************************)
MailtoPrefix == <<"m", "a", "i", "l", "t", "o", ":">>

MailtoFaults == {"none", "find_elements", "get_attribute"}

_find_by_mailto(hrefs, fault) ==
  IF fault = "find_elements" \/ hrefs = << >> \/ fault = "get_attribute"
    THEN << >>
    ELSE LET href == hrefs[1]
             email == Strip(Split(RemoveAll(href, MailtoPrefix), "?")[1])
         IN  IF validate_email(email) THEN email ELSE << >>

RegexFaults == {"none", "page_source"}

(* if email: return email ... return "" *)
Truthy(email) == IF email # NoneText /\ email # << >> THEN email ELSE << >>

_find_by_regex(source, fault) ==
  IF fault = "page_source" THEN << >>
  ELSE Truthy(extract_email_from_text(Lower(source)))

(* elements[:3] *)
VisibleLimit == 3
FirstElements(elements) ==
  SubSeq(elements, 1, IF Len(elements) < VisibleLimit THEN Len(elements) ELSE VisibleLimit)

(* email = extract_email_from_text(element.text.lower()); if email *)
ElementEmail(text) == Truthy(extract_email_from_text(Lower(text)))

(* The first of emails that is not empty *)
FirstFound(emails) ==
  IF \A k \in 1..Len(emails) : emails[k] = << >> THEN << >>
  ELSE emails[CHOOSE k \in 1..Len(emails) :
                emails[k] # << >> /\ \A j \in 1..(k - 1) : emails[j] = << >>]

(* The inner loop: the email of the first element that has one *)
EmailInElements(elements) ==
  FirstFound([k \in 1..Len(elements) |-> ElementEmail(elements[k])])

(* The loop over the selectors, emails[k] being what the elements of the   *)
(* k-th selector give; find_elements raises at selector failAt (0:         *)
(* nowhere).  The loop ends at the first selector that raises or has an    *)
(* email.                                                                  *)
ScanSelectors(emails, failAt) ==
  IF \A k \in 1..Len(emails) : k # failAt /\ emails[k] = << >>
    THEN [email |-> << >>, failed |-> FALSE]
    ELSE LET last == CHOOSE k \in 1..Len(emails) :
                       /\ k = failAt \/ emails[k] # << >>
                       /\ \A j \in 1..(k - 1) : j # failAt /\ emails[j] = << >>
         IN  IF last = failAt THEN [email |-> << >>, failed |-> TRUE]
             ELSE [email |-> emails[last], failed |-> FALSE]

VisibleScan(regions, failAt) ==
  ScanSelectors([k \in 1..Len(regions) |-> EmailInElements(FirstElements(regions[k]))],
                failAt)

_find_in_visible_elements(regions, failAt) == VisibleScan(regions, failAt).email

(* Websites of the model. *)
NoRegions == << << >>, << >>, << >>, << >>, << >> >>

SiteMailto ==
  [hrefs |-> << <<"m", "a", "i", "l", "t", "o", ":", "I", "n", "f", "o", "@", "A", "b", "a", "d", "i", ".", "c", "o", "?", "s", "u", "b", "j", "e", "c", "t", "=", "H", "i">>, <<"m", "a", "i", "l", "t", "o", ":", "b", "@", "a", "b", "a", "d", "i", ".", "c", "o">> >>,
   source |-> <<"<", "a", ">", "S", "a", "l", "e", "s", "@", "A", "b", "a", "d", "i", ".", "c", "o", "<", "/", "a", ">">>,
   regions |-> << << <<"c", "s", "@", "a", "b", "a", "d", "i", ".", "c", "o">> >>, << >>, << >>, << >>, << >> >>]

SiteMailtoBlacklisted ==
  [SiteMailto EXCEPT !.hrefs = << <<"m", "a", "i", "l", "t", "o", ":", "i", "n", "f", "o", "@", "e", "x", "a", "m", "p", "l", "e", ".", "c", "o", "m">> >>]

SiteRegex ==
  [hrefs |-> << >>,
   source |-> <<"<", "p", ">", "l", "o", "g", "o", "@", "2", "x", ".", "p", "n", "g", " ", "S", "a", "l", "e", "s", "@", "A", "b", "a", "d", "i", ".", "c", "o", "<", "/", "p", ">">>,
   regions |-> << << >>, << <<"c", "s", "@", "a", "b", "a", "d", "i", ".", "c", "o">> >>, << >>, << >>, << >> >>]

SiteVisible ==
  [hrefs |-> << >>,
   source |-> <<"<", "p", ">", "c", "s", "&", "#", "6", "4", ";", "a", "b", "a", "d", "i", ".", "c", "o", "<", "/", "p", ">">>,
   regions |-> << << <<"H", "u", "b", "u", "n", "g", "i">>, <<"E", "m", "a", "i", "l", ":", " ", "C", "S", "@", "A", "b", "a", "d", "i", ".", "c", "o">> >>, << >>, << >>,
                  << <<"h", "q", "@", "a", "b", "a", "d", "i", ".", "c", "o">> >>, << >> >>]

SiteVisibleFourth ==
  [hrefs |-> << >>,
   source |-> <<"<", "p", ">", "c", "s", "&", "#", "6", "4", ";", "a", "b", "a", "d", "i", ".", "c", "o", "<", "/", "p", ">">>,
   regions |-> << << >>, << >>, << <<"a">>, <<"b">>, <<"c">>, <<"c", "s", "@", "a", "b", "a", "d", "i", ".", "c", "o">> >>, << >>,
                  << >> >>]

SiteNothing == [hrefs |-> << >>, source |-> <<"<", "p", ">", "H", "a", "l", "o", "<", "/", "p", ">">>, regions |-> NoRegions]

Sites == {SiteMailto, SiteMailtoBlacklisted, SiteRegex, SiteVisible, SiteVisibleFourth, SiteNothing}

(***************************************************************************)
(* EmailFinder.find_email_on_website (gmaps_scraper.py) and the driver     *)
(*                                                                         *)
(* The driver is its open windows, the focused one, and the page load      *)
(* timeout.  Any driver call may raise (a timeout, a lost session) and     *)
(* then changes nothing.  opened, closed, invoked, found and faults record *)
(* what the call did: the windows it opened and closed, the strategies it  *)
(* invoked with what each returned, and the call sites where the driver    *)
(* failed of itself (not those that raise because of what the call did     *)
(* before, such as switching to a window it has closed).                   *)
(***************************************************************************)
PAGE_LOAD_TIMEOUT == 300
EMAIL_PAGE_LOAD_TIMEOUT == 10

NewTab == "tab"
NoWindow == "<unset>"
NotReturned == <<"<not returned>">>

Range(seq) == {seq[k] : k \in 1..Len(seq)}
Remove(seq, h) == SelectSeq(seq, LAMBDA x : x # h)

EmailIdle ==
  /\ window_handles = <<"w1">>
  /\ current_window_handle = "w1"
  /\ page_load_timeout = PAGE_LOAD_TIMEOUT
  /\ original_timeout = PAGE_LOAD_TIMEOUT
  /\ web = SiteNothing
  /\ original_window = NoWindow
  /\ e_email = << >>
  /\ e_pc = "idle"
  /\ e_result = NotReturned
  /\ opened = {}
  /\ closed = {}
  /\ invoked = << >>
  /\ found = << >>
  /\ faults = {}

(* After setup_driver: the timeout is PAGE_LOAD_TIMEOUT and EmailFinder    *)
(* has read it.  find_email_on_website is called with one or two windows   *)
(* open, any of them focused, for a website of the model.                  *)
EmailInit ==
  /\ window_handles \in {<<"w1">>, <<"w1", "w2">>}
  /\ current_window_handle \in Range(window_handles)
  /\ page_load_timeout = PAGE_LOAD_TIMEOUT
  /\ original_timeout = PAGE_LOAD_TIMEOUT
  /\ web \in Sites
  /\ original_window = NoWindow
  /\ e_email = << >>
  /\ e_pc = "call"
  /\ e_result = NotReturned
  /\ opened = {}
  /\ closed = {}
  /\ invoked = << >>
  /\ found = << >>
  /\ faults = {}

(* Lines 179-180, outside the try *)
FindEmailEnter ==
  /\ e_pc = "call"
  /\ \E ok \in BOOLEAN :
       IF ok
         THEN /\ e_email' = << >>
              /\ original_window' = current_window_handle
              /\ e_pc' = "set_short_timeout"
              /\ UNCHANGED <<e_result, faults>>
         ELSE /\ faults' = faults \cup {"current_window_handle"}
              /\ e_pc' = "raised"
              /\ e_result' = EmailRaises
              /\ UNCHANGED <<e_email, original_window>>
  /\ UNCHANGED <<window_handles, current_window_handle, page_load_timeout, original_timeout,
                 web, opened, closed, invoked, found>>
  /\ UNCHANGED notEmail

(* Line 184; an exception in the try body is caught and logged (lines      *)
(* 209-216) and the finally block runs.                                    *)
FindEmailSetShortTimeout ==
  /\ e_pc = "set_short_timeout"
  /\ \E ok \in BOOLEAN :
       IF ok
         THEN /\ page_load_timeout' = EMAIL_PAGE_LOAD_TIMEOUT
              /\ e_pc' = "open_tab"
              /\ UNCHANGED faults
         ELSE /\ faults' = faults \cup {"set_short_timeout"}
              /\ e_pc' = "finally"
              /\ UNCHANGED page_load_timeout
  /\ UNCHANGED <<window_handles, current_window_handle, original_timeout, web,
                 original_window, e_email, e_result, opened, closed, invoked, found>>
  /\ UNCHANGED notEmail

(* Line 187: window.open('') adds a window; the focus stays. *)
FindEmailOpenTab ==
  /\ e_pc = "open_tab"
  /\ \E ok \in BOOLEAN :
       IF ok
         THEN /\ window_handles' = Append(window_handles, NewTab)
              /\ opened' = opened \cup {NewTab}
              /\ e_pc' = "switch_to_tab"
              /\ UNCHANGED faults
         ELSE /\ faults' = faults \cup {"open_tab"}
              /\ e_pc' = "finally"
              /\ UNCHANGED <<window_handles, opened>>
  /\ UNCHANGED <<current_window_handle, page_load_timeout, original_timeout, web,
                 original_window, e_email, e_result, closed, invoked, found>>
  /\ UNCHANGED notEmail

(* Line 188: switch_to.window(window_handles[-1]) *)
FindEmailSwitchToTab ==
  /\ e_pc = "switch_to_tab"
  /\ \E ok \in BOOLEAN :
       IF ok
         THEN /\ current_window_handle' = Last(window_handles)
              /\ e_pc' = "get"
              /\ UNCHANGED faults
         ELSE /\ faults' = faults \cup {"switch_to_tab"}
              /\ e_pc' = "finally"
              /\ UNCHANGED current_window_handle
  /\ UNCHANGED <<window_handles, page_load_timeout, original_timeout, web,
                 original_window, e_email, e_result, opened, closed, invoked, found>>
  /\ UNCHANGED notEmail

(* Line 191: driver.get(website_url) loads, times out or fails *)
FindEmailGet ==
  /\ e_pc = "get"
  /\ \E ok \in BOOLEAN :
       IF ok
         THEN e_pc' = "wait_body" /\ UNCHANGED faults
         ELSE e_pc' = "finally" /\ faults' = faults \cup {"get"}
  /\ UNCHANGED <<window_handles, current_window_handle, page_load_timeout, original_timeout,
                 web, original_window, e_email, e_result, opened, closed, invoked, found>>
  /\ UNCHANGED notEmail

(* Lines 194-196: WebDriverWait(...).until(body present) *)
FindEmailWaitBody ==
  /\ e_pc = "wait_body"
  /\ \E ok \in BOOLEAN :
       IF ok
         THEN e_pc' = "mailto" /\ UNCHANGED faults
         ELSE e_pc' = "finally" /\ faults' = faults \cup {"wait_body"}
  /\ UNCHANGED <<window_handles, current_window_handle, page_load_timeout, original_timeout,
                 web, original_window, e_email, e_result, opened, closed, invoked, found>>
  /\ UNCHANGED notEmail

ShouldTry_always(email) == TRUE
(* if not email *)
ShouldTry(email) == email = << >>

(* Line 199: email = self._find_by_mailto() *)
FindEmailMailto ==
  /\ e_pc = "mailto"
  /\ \E fault \in (IF web.hrefs = << >> THEN MailtoFaults \ {"get_attribute"} ELSE MailtoFaults) :
       /\ e_email' = _find_by_mailto(web.hrefs, fault)
       /\ faults' = IF fault = "none" THEN faults ELSE faults \cup {"mailto"}
  /\ invoked' = Append(invoked, "mailto")
  /\ found' = Append(found, e_email')
  /\ e_pc' = "regex"
  /\ UNCHANGED <<window_handles, current_window_handle, page_load_timeout, original_timeout,
                 web, original_window, e_result, opened, closed>>
  /\ UNCHANGED notEmail

(* Lines 202-203: if not email: email = self._find_by_regex() *)
FindEmailRegex ==
  /\ e_pc = "regex"
  /\ IF ShouldTry(e_email)
       THEN /\ \E fault \in RegexFaults :
                 /\ e_email' = _find_by_regex(web.source, fault)
                 /\ faults' = IF fault = "none" THEN faults ELSE faults \cup {"regex"}
            /\ invoked' = Append(invoked, "regex")
            /\ found' = Append(found, e_email')
       ELSE UNCHANGED <<e_email, faults, invoked, found>>
  /\ e_pc' = "visible"
  /\ UNCHANGED <<window_handles, current_window_handle, page_load_timeout, original_timeout,
                 web, original_window, e_result, opened, closed>>
  /\ UNCHANGED notEmail

(* Lines 206-207: if not email: email = self._find_in_visible_elements() *)
FindEmailVisible ==
  /\ e_pc = "visible"
  /\ IF ShouldTry(e_email)
       THEN /\ \E failAt \in 0..Len(web.regions) :
                 /\ e_email' = _find_in_visible_elements(web.regions, failAt)
                 /\ faults' = IF VisibleScan(web.regions, failAt).failed
                                THEN faults \cup {"visible"} ELSE faults
            /\ invoked' = Append(invoked, "visible")
            /\ found' = Append(found, e_email')
       ELSE UNCHANGED <<e_email, faults, invoked, found>>
  /\ e_pc' = "finally"
  /\ UNCHANGED <<window_handles, current_window_handle, page_load_timeout, original_timeout,
                 web, original_window, e_result, opened, closed>>
  /\ UNCHANGED notEmail

(* Line 220, in the finally block and outside its inner try: an exception  *)
(* here leaves find_email_on_website.                                      *)
FindEmailRestoreTimeout ==
  /\ e_pc = "finally"
  /\ \E ok \in BOOLEAN :
       IF ok
         THEN /\ page_load_timeout' = original_timeout
              /\ e_pc' = "close"
              /\ UNCHANGED <<faults, e_result>>
         ELSE /\ faults' = faults \cup {"restore_timeout"}
              /\ e_pc' = "raised"
              /\ e_result' = EmailRaises
              /\ UNCHANGED page_load_timeout
  /\ UNCHANGED <<window_handles, current_window_handle, original_timeout, web,
                 original_window, e_email, opened, closed, invoked, found>>
  /\ UNCHANGED notEmail

(* Line 222: driver.close() closes the focused window, whichever it is. *)
FindEmailClose ==
  /\ e_pc = "close"
  /\ \E ok \in BOOLEAN :
       IF ok /\ current_window_handle \in Range(window_handles)
         THEN /\ window_handles' = Remove(window_handles, current_window_handle)
              /\ closed' = closed \cup {current_window_handle}
              /\ e_pc' = "switch_back"
              /\ UNCHANGED faults
         ELSE /\ faults' = IF ok THEN faults ELSE faults \cup {"close"}
              /\ e_pc' = "fallback"
              /\ UNCHANGED <<window_handles, closed>>
  /\ UNCHANGED <<current_window_handle, page_load_timeout, original_timeout, web,
                 original_window, e_email, e_result, opened, invoked, found>>
  /\ UNCHANGED notEmail

(* Line 223: switch_to.window(original_window) raises when that window is  *)
(* no longer open.                                                         *)
FindEmailSwitchBack ==
  /\ e_pc = "switch_back"
  /\ \E ok \in BOOLEAN :
       IF ok /\ original_window \in Range(window_handles)
         THEN /\ current_window_handle' = original_window
              /\ e_pc' = "return"
              /\ UNCHANGED faults
         ELSE /\ faults' = IF ok THEN faults ELSE faults \cup {"switch_back"}
              /\ e_pc' = "fallback"
              /\ UNCHANGED current_window_handle
  /\ UNCHANGED <<window_handles, page_load_timeout, original_timeout, web,
                 original_window, e_email, e_result, opened, closed, invoked, found>>
  /\ UNCHANGED notEmail

(* Lines 224-227, the except branch: its own driver calls are not guarded. *)
FindEmailFallback ==
  /\ e_pc = "fallback"
  /\ \E ok \in BOOLEAN :
       IF ok
         THEN /\ current_window_handle' =
                   IF Len(window_handles) > 0 THEN window_handles[1]
                   ELSE current_window_handle
              /\ e_pc' = "return"
              /\ UNCHANGED <<faults, e_result>>
         ELSE /\ faults' = faults \cup {"fallback"}
              /\ e_pc' = "raised"
              /\ e_result' = EmailRaises
              /\ UNCHANGED current_window_handle
  /\ UNCHANGED <<window_handles, page_load_timeout, original_timeout, web,
                 original_window, e_email, opened, closed, invoked, found>>
  /\ UNCHANGED notEmail

(* Line 229: return email *)
FindEmailReturn ==
  /\ e_pc = "return"
  /\ e_result' = e_email
  /\ e_pc' = "returned"
  /\ UNCHANGED <<window_handles, current_window_handle, page_load_timeout, original_timeout,
                 web, original_window, e_email, opened, closed, invoked, found, faults>>
  /\ UNCHANGED notEmail

(***************************************************************************)
(* sanitize_filename (utils.py) and calls of it on a text and a maximum    *)
(* length: every text of at most MaxTextLen characters over a lower-case   *)
(* and an upper-case letter, the underscore, the space, the tab and a      *)
(* special character, with every max_length from -1 to MaxLengthArg; and   *)
(* the texts of the test suite with the lengths used there.                *)
(***************************************************************************)
MAX_LENGTH_FILENAME == 50

(* c.isalnum() for the characters of the model *)
IsAlnum(c) == c \in Alnum

(* c if c.isalnum() or c in (' ', '-', '_') else '_' *)
ReplaceSpecial(text) ==
  [k \in 1..Len(text) |-> IF IsAlnum(text[k]) \/ text[k] \in {" ", "-", "_"} THEN text[k] ELSE "_"]

(* re.sub(FILENAME_ALLOWED_CHARS_PATTERN, '_', s): every maximal run of    *)
(* underscores and whitespace becomes one underscore.                      *)
IsGap(c) == c = "_" \/ c \in Whitespace
RECURSIVE CollapseGaps(_)
CollapseGaps(s) ==
  IF s = << >> THEN << >>
  ELSE IF IsGap(s[1])
    THEN IF Len(s) > 1 /\ IsGap(s[2]) THEN CollapseGaps(Tail(s)) ELSE <<"_">> \o CollapseGaps(Tail(s))
    ELSE <<s[1]>> \o CollapseGaps(Tail(s))

(* s.rstrip('_') and s.strip('_') *)
RStripUnderscore_nothing(s) == s
RECURSIVE RStripUnderscore(_)
RStripUnderscore(s) ==
  IF s # << >> /\ s[Len(s)] = "_" THEN RStripUnderscore(SubSeq(s, 1, Len(s) - 1)) ELSE s
RECURSIVE LStripUnderscore(_)
LStripUnderscore(s) == IF s # << >> /\ s[1] = "_" THEN LStripUnderscore(Tail(s)) ELSE s
StripUnderscore(s) == LStripUnderscore(RStripUnderscore(s))

(* s[:n], n negative counting from the end *)
SliceTo(s, n) ==
  IF n >= 0 THEN SubSeq(s, 1, IF n < Len(s) THEN n ELSE Len(s))
  ELSE SubSeq(s, 1, Len(s) + n)

TruncateFilename(s, max_length) ==
  IF Len(s) > max_length THEN RStripUnderscore(SliceTo(s, max_length)) ELSE s

sanitize_filename(text, max_length) ==
  TruncateFilename(Lower(StripUnderscore(CollapseGaps(ReplaceSpecial(text)))), max_length)

MaxTextLen == 4
MaxLengthArg == 3
FilenameChars == {"a", "B", "_", " ", "\t", "!"}
FilenameTests ==
  {[text |-> <<"T", "r", "a", "v", "e", "l", " ", "A", "g", "e", "n", "t", " ", "J", "a", "k", "a", "r", "t", "a">>, max_length |-> MAX_LENGTH_FILENAME],
   [text |-> <<"H", "o", "t", "e", "l", " ", "d", "i", " ", "B", "a", "l", "i", "!", "!">>, max_length |-> MAX_LENGTH_FILENAME],
   [text |-> <<"R", "e", "s", "t", "a", "u", "r", "a", "n", "t", "#", "1", "2", "3", "@", "C", "i", "t", "y">>, max_length |-> MAX_LENGTH_FILENAME],
   [text |-> <<"T", "r", "a", "v", "e", "l", " ", "U", "m", "r", "a", "h", " ", "d", "i", " ", "J", "a", "k", "a", "r", "t", "a", "!", "!">>, max_length |-> 30],
   [text |-> <<"T", "h", "i", "s", " ", "i", "s", " ", "a", " ", "v", "e", "r", "y", " ", "l", "o", "n", "g", " ", "f", "i", "l", "e", "n", "a", "m", "e", " ", "t", "h", "a", "t", " ", "e", "x", "c", "e", "e", "d", "s", " ", "t", "h", "e", " ", "m", "a", "x", "i", "m", "u", "m", " ", "l", "e", "n", "g", "t", "h", " ", "l", "i", "m", "i", "t">>,
    max_length |-> 30]}
FilenameArgs ==
  {[text |-> t, max_length |-> m] :
     t \in UNION {[1..n -> FilenameChars] : n \in 0..MaxTextLen}, m \in (-1)..MaxLengthArg}
    \cup FilenameTests

SanitizeInit ==
  /\ f_name = "none"
  /\ f_arg \in FilenameArgs
  /\ f_ret = NoResult

CallSanitizeFilename ==
  /\ f_name = "none"
  /\ f_name' = "sanitize_filename"
  /\ f_ret' = sanitize_filename(f_arg.text, f_arg.max_length)
  /\ UNCHANGED f_arg
  /\ UNCHANGED notFunc

(***************************************************************************)
(* Calls of validate_email on a candidate: a local part, "@", a domain     *)
(* name, a top-level part and what follows it, each drawn from a few       *)
(* forms; the candidates of the test suite; and two with a domain name     *)
(* long enough to reach EMAIL_MAX_LENGTH and to pass it by one.            *)
(***************************************************************************)
LocalParts == {<<"u", "s", "e", "r">>, <<"U", "S", "E", "R">>, <<"a", ".", "b", "+", "c">>, <<".", "x">>, << >>}
DomainNames ==
  {<<"c", "o", "m", "p", "a", "n", "y">>, <<"b">>, <<"c", "o", "n", "t", "e", "s", "t">>, <<"E", "x", "a", "m", "p", "l", "e">>, <<"p", "h", "o", "t", "o">>, <<"t", "r", "a", "v", "e", "l", "-", "a", "g", "e", "n", "c", "y">>, << >>}
TopLevels == {<<".", "c", "o", "m">>, <<".", "c", "o", ".", "i", "d">>, <<".", "c">>, <<".", "j", "p", "g">>, <<".", "P", "N", "G">>, << >>}
Endings == {<< >>, <<"\n">>, <<" ">>}
TestSuiteEmails ==
  {<<"u", "s", "e", "r", "@", "d", "o", "m", "a", "i", "n", ".", "c", "o", "m">>, <<"s", "u", "p", "p", "o", "r", "t", "+", "i", "n", "q", "u", "i", "r", "y", "@", "b", "u", "s", "i", "n", "e", "s", "s", ".", "n", "e", "t">>, <<"j", "o", "h", "n", ".", "d", "o", "e", "@", "e", "m", "a", "i", "l", ".", "o", "r", "g">>,
   <<"n", "o", "t", "-", "a", "n", "-", "e", "m", "a", "i", "l">>, <<"i", "m", "a", "g", "e", "@", "p", "h", "o", "t", "o", ".", "j", "p", "g">>, <<"a", "@", "b", ".", "c">>}
LongEmail(n) == <<"u", "s", "e", "r", "@">> \o Rep("a", n - 8) \o <<".", "c", "o">>
EmailArgs ==
  {l \o <<"@">> \o d \o t \o e : l \in LocalParts, d \in DomainNames, t \in TopLevels, e \in Endings}
    \cup TestSuiteEmails
    \cup {LongEmail(EMAIL_MAX_LENGTH), LongEmail(EMAIL_MAX_LENGTH + 1)}

ValidateEmailInit ==
  /\ f_name = "none"
  /\ f_arg \in EmailArgs
  /\ f_ret = NoResult

CallValidateEmail ==
  /\ f_name = "none"
  /\ f_name' = "validate_email"
  /\ f_ret' = validate_email(f_arg)
  /\ UNCHANGED f_arg
  /\ UNCHANGED notFunc

(***************************************************************************)
(* Calls of extract_email_from_text on a text, and the same call again.    *)
(* The texts are the three of the test suite and every text of at most     *)
(* MaxPieces pieces joined by a space, a piece being a valid address, one  *)
(* in upper case, one of a blacklisted domain, an image file name with an  *)
(* "@" in it, an address without a top-level domain, or a plain word.      *)
(***************************************************************************)
MaxPieces == 3
TextPieces ==
  {<<"c", "s", "@", "a", "b", "a", "d", "i", ".", "c", "o">>, <<"I", "n", "f", "o", "@", "C", "o", "m", "p", "a", "n", "y", ".", "C", "O", "M">>, <<"c", "o", "n", "t", "a", "c", "t", "@", "t", "e", "s", "t", ".", "c", "o", "m">>,
   <<"l", "o", "g", "o", "@", "2", "x", ".", "p", "n", "g">>, <<"a", "d", "m", "i", "n", "@", "l", "o", "c", "a", "l", "h", "o", "s", "t">>, <<"E", "m", "a", "i", "l", ":">>}
TextInfo == <<"C", "o", "n", "t", "a", "c", "t", " ", "u", "s", " ", "a", "t", " ", "i", "n", "f", "o", "@", "c", "o", "m", "p", "a", "n", "y", ".", "c", "o", "m", " ", "f", "o", "r", " ", "m", "o", "r", "e", " ", "i", "n", "f", "o", "r", "m", "a", "t", "i", "o", "n">>
TextBlacklistedFirst == <<"E", "m", "a", "i", "l", ":", " ", "c", "o", "n", "t", "a", "c", "t", "@", "t", "e", "s", "t", ".", "c", "o", "m", " ", "o", "r", " ", "a", "d", "m", "i", "n", "@", "b", "u", "s", "i", "n", "e", "s", "s", ".", "c", "o", ".", "i", "d">>
TextNoEmail == <<"N", "o", " ", "e", "m", "a", "i", "l", " ", "a", "d", "d", "r", "e", "s", "s", " ", "h", "e", "r", "e">>

RECURSIVE TextsOf(_)
TextsOf(n) ==
  IF n = 0 THEN {<< >>}
  ELSE LET shorter == TextsOf(n - 1)
       IN  shorter \cup {IF t = << >> THEN p ELSE t \o <<" ">> \o p : t \in shorter, p \in TextPieces}

TextArgs == TextsOf(MaxPieces) \cup {TextInfo, TextBlacklistedFirst, TextNoEmail}

ExtractInit ==
  /\ f_name = "none"
  /\ f_arg \in TextArgs
  /\ f_ret = NoResult

CallExtractEmail ==
  /\ f_name = "none"
  /\ f_name' = "extract_email_from_text"
  /\ f_ret' = extract_email_from_text(f_arg)
  /\ UNCHANGED f_arg
  /\ UNCHANGED notFunc

CallExtractEmailAgain ==
  /\ f_name = "extract_email_from_text"
  /\ f_name' = "extract_email_from_text again"
  /\ f_ret' = extract_email_from_text(f_arg)
  /\ UNCHANGED f_arg
  /\ UNCHANGED notFunc

(***************************************************************************)
(* A scrape_all run long enough for the periodic flush: MaxFlushLinks      *)
(* links under the default mode, at most MaxFlushSkipped of them with a    *)
(* page that gives a record the validation skips, the others with a page   *)
(* that gives an accepted one.                                             *)
(***************************************************************************)
MaxFlushLinks == 21
MaxFlushSkipped == 1

(* The subsets of S of at most k elements. *)
RECURSIVE SubsetsUpTo(_, _)
SubsetsUpTo(S, k) ==
  IF k = 0 THEN {{}}
  ELSE LET R == SubsetsUpTo(S, k - 1) IN R \cup {T \cup {x} : T \in R, x \in S}

FlushInit ==
  /\ VALIDATION_MODE = VALIDATION_MODE_MODERATE
  /\ shutdown_requested = FALSE
  /\ links = [k \in 1..MaxFlushLinks |-> LinkUrl(k)]
  /\ \E skipped \in SubsetsUpTo(1..MaxFlushLinks, MaxFlushSkipped) :
       site = [k \in 1..MaxFlushLinks |-> IF k \in skipped THEN PageGetFails ELSE PageComplete]
  /\ link_no = 0
  /\ s_pc = "loaded"
  /\ s_data = << >>
  /\ rows = << >>
  /\ flushed = 0
  /\ begun = << >>

(***************************************************************************)
(* Calls of extract_city_from_address on an address.  The addresses are    *)
(* every string of at most MaxAddressLen characters over a letter, a       *)
(* second letter, a digit, the space and the comma, and the addresses of   *)
(* the docstring and of the test suite.                                    *)
(***************************************************************************)
MaxAddressLen == 5
AddressChars == {"a", "b", "1", " ", ","}
AddressSudirman == <<"J", "l", ".", " ", "S", "u", "d", "i", "r", "m", "a", "n", " ", "N", "o", ".", "1", ",", " ", "J", "a", "k", "a", "r", "t", "a", " ", "P", "u", "s", "a", "t", ",", " ", "D", "K", "I", " ", "J", "a", "k", "a", "r", "t", "a">>
AddressBandung == <<"R", "u", "k", "o", " ", "G", "r", "a", "h", "a", " ", "N", "o", ".", "5", ",", " ", "B", "a", "n", "d", "u", "n", "g", ",", " ", "J", "a", "w", "a", " ", "B", "a", "r", "a", "t", " ", "4", "0", "1", "2", "3">>
AddressSurabaya == <<"M", "a", "i", "n", " ", "S", "t", "r", "e", "e", "t", " ", "1", "2", "3", ",", " ", "S", "u", "r", "a", "b", "a", "y", "a", ",", " ", "E", "a", "s", "t", " ", "J", "a", "v", "a">>
AddressArgs ==
  UNION {[1..n -> AddressChars] : n \in 0..MaxAddressLen}
    \cup {AddressSudirman, AddressBandung, AddressSurabaya}

FuncIdle ==
  /\ f_name = "none"
  /\ f_arg = << >>
  /\ f_ret = NoResult

CityInit ==
  /\ f_name = "none"
  /\ f_arg \in AddressArgs
  /\ f_ret = NoResult

CallExtractCity ==
  /\ f_name = "none"
  /\ f_name' = "extract_city_from_address"
  /\ f_ret' = extract_city_from_address(f_arg)
  /\ UNCHANGED f_arg
  /\ UNCHANGED notFunc

(***************************************************************************)
(* GoogleMapsScraper.run, setup_driver and cleanup (gmaps_scraper.py).     *)
(* run_calls lists the uses of the driver in order; run_exit names the     *)
(* path by which the try block of run was left.  scrape_all is reduced to  *)
(* its driver use, one detail page per link, and to its failing.           *)
(***************************************************************************)
MaxRunLinks == 2
SearchRetries == 2

RunIdle ==
  /\ run_pc = "idle"
  /\ run_driver = "None"
  /\ run_calls = << >>
  /\ run_exit = "none"
  /\ run_links = 0
  /\ run_scraped = 0

(* GoogleMapsScraper.__init__: self.driver = None; run is about to start *)
RunInit ==
  /\ run_pc = "setup_driver"
  /\ run_driver = "None"
  /\ run_calls = << >>
  /\ run_exit = "none"
  /\ run_links = 0
  /\ run_scraped = 0

(* One use of the driver, and whether it raised. *)
Use(call, ok) == [call |-> call, ok |-> ok]

(* setup_driver: webdriver.Chrome(...) may raise, leaving self.driver      *)
(* None; a later line may raise with self.driver already assigned; every   *)
(* exception becomes WebDriverSetupError.  self.driver is "None" or the    *)
(* driver object.                                                          *)
RunSetupDriver ==
  /\ run_pc = "setup_driver"
  /\ \E outcome \in {"Chrome raises", "set_page_load_timeout raises", "ok"} :
       /\ run_driver' = IF outcome = "Chrome raises" THEN "None" ELSE "webdriver.Chrome"
       /\ run_calls' = IF outcome = "Chrome raises" THEN run_calls
                       ELSE Append(run_calls, Use("set_page_load_timeout", outcome = "ok"))
       /\ run_pc' = IF outcome = "ok" THEN "search_google_maps" ELSE "except"
       /\ run_exit' = IF outcome = "ok" THEN run_exit ELSE "setup failure"
  /\ UNCHANGED <<run_links, run_scraped>>
  /\ UNCHANGED notRun

(* search_google_maps under retry_on_failure(max_retries=2): each attempt  *)
(* is a driver.get; after the last failed attempt SearchError propagates.  *)
RunSearch ==
  /\ run_pc = "search_google_maps"
  /\ \E failed \in 0..SearchRetries :
       /\ run_calls' = run_calls
            \o [k \in 1..(IF failed < SearchRetries THEN failed ELSE SearchRetries) |->
                  Use("get maps", FALSE)]
            \o (IF failed < SearchRetries THEN <<Use("get maps", TRUE)>> ELSE << >>)
       /\ run_pc' = IF failed < SearchRetries THEN "collect_links" ELSE "except"
       /\ run_exit' = IF failed < SearchRetries THEN run_exit ELSE "search failure"
  /\ UNCHANGED <<run_driver, run_links, run_scraped>>
  /\ UNCHANGED notRun

(* collect_links: raises (NoResultsFoundError when no link is found, or    *)
(* what the driver raised), or returns one link or more.                   *)
RunCollectLinks ==
  /\ run_pc = "collect_links"
  /\ \E n \in (-1)..MaxRunLinks :
       /\ run_calls' = Append(run_calls, Use("find_elements", n >= 0))
       /\ run_links' = IF n > 0 THEN n ELSE 0
       /\ run_pc' = IF n > 0 THEN "scrape_all" ELSE "except"
       /\ run_exit' = IF n > 0 THEN run_exit
                      ELSE IF n = 0 THEN "no links" ELSE "collect failure"
  /\ UNCHANGED <<run_driver, run_scraped>>
  /\ UNCHANGED notRun

(* scrape_all: the next detail page, whose driver.get may fail (the record *)
(* is then skipped or saved empty); or an exception out of scrape_all (the *)
(* file cannot be opened or written, the mode is unknown); or its return.  *)
RunScrapeAll ==
  /\ run_pc = "scrape_all"
  /\ \/ /\ run_scraped < run_links
        /\ run_scraped' = run_scraped + 1
        /\ \E ok \in BOOLEAN : run_calls' = Append(run_calls, Use("get detail", ok))
        /\ UNCHANGED <<run_pc, run_exit>>
     \/ /\ run_pc' = "except"
        /\ run_exit' = "scrape failure"
        /\ UNCHANGED <<run_scraped, run_calls>>
     \/ /\ run_scraped = run_links
        /\ run_pc' = "finally"
        /\ run_exit' = "complete"
        /\ UNCHANGED <<run_scraped, run_calls>>
  /\ UNCHANGED <<run_driver, run_links>>
  /\ UNCHANGED notRun

(* except Exception: log, return "", 0, stats *)
RunExcept ==
  /\ run_pc = "except"
  /\ run_pc' = "finally"
  /\ UNCHANGED <<run_driver, run_calls, run_exit, run_links, run_scraped>>
  /\ UNCHANGED notRun

HasDriver_never(d) == FALSE
(* if self.driver: *)
HasDriver(d) == d # "None"

(* finally: self.cleanup() *)
RunCleanup ==
  /\ run_pc = "finally"
  /\ run_pc' = IF HasDriver(run_driver) THEN "close_extra_tabs" ELSE "returned"
  /\ UNCHANGED <<run_driver, run_calls, run_exit, run_links, run_scraped>>
  /\ UNCHANGED notRun

(* close_extra_tabs(self.driver): what the driver raises in it is          *)
(* swallowed there, utils.py lines 165-183.                                *)
RunCloseExtraTabs ==
  /\ run_pc = "close_extra_tabs"
  /\ \E ok \in BOOLEAN : run_calls' = Append(run_calls, Use("window_handles", ok))
  /\ run_pc' = "quit"
  /\ UNCHANGED <<run_driver, run_exit, run_links, run_scraped>>
  /\ UNCHANGED notRun

(* self.driver.quit(): what it raises is logged as a warning *)
RunQuit ==
  /\ run_pc = "quit"
  /\ \E ok \in BOOLEAN : run_calls' = Append(run_calls, Use("quit", ok))
  /\ run_pc' = "returned"
  /\ UNCHANGED <<run_driver, run_exit, run_links, run_scraped>>
  /\ UNCHANGED notRun

(***************************************************************************)
(* Specifications                                                          *)
(***************************************************************************)
InitStats == DataStatistics_init /\ RetryIdle /\ DataIdle /\ ScrapeIdle /\ EmailIdle /\ FuncIdle /\ RunIdle
NextStats == StatsAddSaved \/ StatsAddSkipped
SpecStats == InitStats /\ [][NextStats]_vars

InitRetry == RetryInit /\ DataStatistics_init /\ DataIdle /\ ScrapeIdle /\ EmailIdle /\ FuncIdle /\ RunIdle
NextRetry == RetryFor \/ RetryCallReturns \/ RetryCallRaises \/ RetrySleep
SpecRetry == InitRetry /\ [][NextRetry]_vars

InitData == DataInit /\ DataStatistics_init /\ RetryIdle /\ ScrapeIdle /\ EmailIdle /\ FuncIdle /\ RunIdle
NextData == CallValidateData \/ CallTruncateFields
SpecData == InitData /\ [][NextData]_vars

InitScrape == ScrapeInit /\ DataStatistics_init /\ RetryIdle /\ DataIdle /\ EmailIdle /\ FuncIdle /\ RunIdle
NextScrape ==
  ConfigModuleLoad \/ SetValidationMode \/
  signal_handler \/ ScrapeAllStart \/ ScrapeAllFor \/ ScrapeAllScrape \/ ScrapeAllValidate
SpecScrape == InitScrape /\ [][NextScrape]_vars

InitEmail == EmailInit /\ DataStatistics_init /\ RetryIdle /\ DataIdle /\ ScrapeIdle /\ FuncIdle /\ RunIdle
NextEmail ==
  \/ FindEmailEnter \/ FindEmailSetShortTimeout \/ FindEmailOpenTab \/ FindEmailSwitchToTab
  \/ FindEmailGet \/ FindEmailWaitBody \/ FindEmailMailto \/ FindEmailRegex
  \/ FindEmailVisible \/ FindEmailRestoreTimeout \/ FindEmailClose \/ FindEmailSwitchBack
  \/ FindEmailFallback \/ FindEmailReturn
SpecEmail == InitEmail /\ [][NextEmail]_vars

InitCity == CityInit /\ DataStatistics_init /\ RetryIdle /\ DataIdle /\ ScrapeIdle /\ EmailIdle /\ RunIdle
NextCity == CallExtractCity
SpecCity == InitCity /\ [][NextCity]_vars

InitFlush == FlushInit /\ DataStatistics_init /\ RetryIdle /\ DataIdle /\ EmailIdle /\ FuncIdle /\ RunIdle
NextFlush == signal_handler \/ ScrapeAllStart \/ ScrapeAllFor \/ ScrapeAllScrape \/ ScrapeAllValidate
SpecFlush == InitFlush /\ [][NextFlush]_vars

InitExtract ==
  ExtractInit /\ DataStatistics_init /\ RetryIdle /\ DataIdle /\ ScrapeIdle /\ EmailIdle /\ RunIdle
NextExtract == CallExtractEmail \/ CallExtractEmailAgain
SpecExtract == InitExtract /\ [][NextExtract]_vars

InitValidateEmail ==
  ValidateEmailInit /\ DataStatistics_init /\ RetryIdle /\ DataIdle /\ ScrapeIdle /\ EmailIdle /\ RunIdle
NextValidateEmail == CallValidateEmail
SpecValidateEmail == InitValidateEmail /\ [][NextValidateEmail]_vars

InitSanitize ==
  SanitizeInit /\ DataStatistics_init /\ RetryIdle /\ DataIdle /\ ScrapeIdle /\ EmailIdle /\ RunIdle
NextSanitize == CallSanitizeFilename
SpecSanitize == InitSanitize /\ [][NextSanitize]_vars

InitRun ==
  RunInit /\ DataStatistics_init /\ RetryIdle /\ DataIdle /\ ScrapeIdle /\ EmailIdle /\ FuncIdle
NextRun ==
  \/ RunSetupDriver \/ RunSearch \/ RunCollectLinks \/ RunScrapeAll \/ RunExcept
  \/ RunCleanup \/ RunCloseExtraTabs \/ RunQuit
SpecRun == InitRun /\ [][NextRun]_vars

(***************************************************************************)
(* Claims                                                                  *)
(***************************************************************************)

(* C1: after any sequence of add_saved() and add_skipped(reason) calls on a *)
(* fresh DataStatistics, total_processed = total_saved + total_skipped.     *)
C1_ProcessedIsSavedPlusSkipped ==
  total_processed = total_saved + total_skipped

C1_Witness ==
  /\ total_saved >= 2
  /\ total_skipped >= 2
  /\ Cardinality(DOMAIN skip_reasons) >= 2

(* The invocations of the wrapped function and the waits of one wrapper    *)
(* call, in the order they happened.                                       *)
IsCall(e) == e.ev = "call"
IsSleep(e) == e.ev = "sleep"
Calls == SelectSeq(events, IsCall)
Sleeps == SelectSeq(events, IsSleep)
AllCallsFailed == \A i \in 1..Len(Calls) : ~Calls[i].ok

(* C5: the wrapped function is invoked at most max_retries times per call  *)
(* of the wrapper (never, for a count below 1), and a successful           *)
(* invocation is the last thing the wrapper does: its value is returned,   *)
(* and no invocation and no wait follows it.                               *)
C5_AtMostMaxRetriesAndStopOnSuccess ==
  /\ Len(Calls) <= (IF max_retries > 0 THEN max_retries ELSE 0)
  /\ \A i \in 1..Len(events) :
        (IsCall(events[i]) /\ events[i].ok)
          => /\ i = Len(events)
             /\ r_pc = "returned"
             /\ r_outcome = events[i].val
  /\ r_pc = "returned" => (events # << >> /\ IsCall(Last(events)) /\ Last(events).ok)

C5_Witness ==
  /\ r_pc = "returned"
  /\ max_retries = 3
  /\ Len(Calls) = 3
  /\ Len(Sleeps) = 2

(* C6: when every attempt has failed (and there was at least one), the     *)
(* wrapper raises the exception of the last attempt, the same value, and   *)
(* does not return.                                                        *)
C6_RaisesLastException ==
  /\ (Len(Calls) >= 1 /\ Len(Calls) = max_retries /\ AllCallsFailed)
       => /\ r_pc \in {"for", "raised"}
          /\ last_exception = Last(Calls).val
  /\ (r_pc = "raised" /\ Len(Calls) >= 1)
       => /\ AllCallsFailed
          /\ Len(Calls) = max_retries
          /\ r_outcome = Last(Calls).val
          /\ r_outcome \in FuncExceptions

C6_Witness ==
  /\ r_pc = "raised"
  /\ Len(Calls) = 3
  /\ Calls[1].val # Calls[3].val
  /\ Calls[2].val # Calls[3].val

(* C7: invocations and waits alternate (exactly one wait between two       *)
(* consecutive attempts), the first wait is delay seconds and every later  *)
(* one BACKOFF_FACTOR times the one before (delay = 2: 2, 4, 8, ...), and  *)
(* the wrapper never ends on a wait: no wait follows the final attempt.    *)
C7_ExponentialBackoffBetweenAttempts ==
  /\ \A i \in 1..Len(events) :
        /\ IsCall(events[i]) <=> (i % 2 = 1)
        /\ IsSleep(events[i]) => (~events[i - 1].ok /\ events[i].number = events[i - 1].number)
  /\ \A k \in 1..Len(Sleeps) :
        /\ Sleeps[k].number = k - 1
        /\ Sleeps[k].val = (IF k = 1 THEN delay ELSE BACKOFF_FACTOR * Sleeps[k - 1].val)
  /\ (delay = 2 /\ BACKOFF_FACTOR = 2)
       => \A k \in 1..Len(Sleeps) : Sleeps[k].val = <<2, 4, 8, 16, 32>>[k]
  /\ r_pc \in {"returned", "raised"}
       => /\ events # << >> => IsCall(Last(events))
          /\ Len(Calls) >= 1 => Len(Sleeps) = Len(Calls) - 1
  /\ (r_pc = "raised" /\ max_retries >= 1) => Len(Sleeps) = max_retries - 1

C7_Witness ==
  /\ r_pc = "raised"
  /\ delay = 2
  /\ Len(Sleeps) = 2
  /\ Sleeps[2].val = 4

(* A field is absent from the record, or holds only whitespace. *)
AbsentOrBlank(d, f) == f \notin DOMAIN d \/ \A i \in 1..Len(d[f]) : d[f][i] \in Whitespace

(* The fields of a policy the record lacks, as positions in the policy. *)
LackedPositions(d, policy) == {i \in 1..Len(policy) : AbsentOrBlank(d, policy[i])}

(* reason reads "Missing: " and then the lacked fields in the policy's      *)
(* order, ", " between two of them.                                        *)
IsMissingReason(reason, d, policy) ==
  LET lacked == LackedPositions(d, policy)
      n == Cardinality(lacked)
      Nth(k) == CHOOSE i \in lacked : Cardinality({j \in lacked : j < i}) = k - 1
  IN  /\ Len(reason) = 2 * n
      /\ reason[1] = "Missing: "
      /\ \A k \in 1..n : reason[2 * k] = policy[Nth(k)]
      /\ \A k \in 1..(n - 1) : reason[2 * k + 1] = ", "

StrictPolicy == CSV_HEADERS
ModeratePolicy == <<CSV_HEADER_NAMA, CSV_HEADER_WEBSITE, CSV_HEADER_EMAIL>>
LenientPolicy == <<CSV_HEADER_NAMA, CSV_HEADER_TELEPON>>
PolicyOf(m) ==
  CASE m = "STRICT" -> StrictPolicy
    [] m = "MODERATE" -> ModeratePolicy
    [] m = "LENIENT" -> LenientPolicy

(* C9: under STRICT, MODERATE and LENIENT validate_data rejects exactly     *)
(* when a field the policy requires is absent or blank after trimming; the *)
(* reason is then "Missing: " and all such fields, comma-joined in the     *)
(* policy's order; otherwise the result is (True, "Valid").                *)
C9_RejectsExactlyMissingRequired ==
  (called = "validate_data" /\ mode \in {"STRICT", "MODERATE", "LENIENT"})
    => LET policy == PolicyOf(mode)
       IN  IF LackedPositions(data, policy) = {}
             THEN v_result = <<TRUE, <<"Valid">>>>
             ELSE /\ v_result[1] = FALSE
                  /\ IsMissingReason(v_result[2], data, policy)

(* A complete STRICT record with one field removed. *)
C9_Witness ==
  /\ called = "validate_data"
  /\ mode = "STRICT"
  /\ DOMAIN data = Fields \ {CSV_HEADER_TELEPON}
  /\ v_result = <<FALSE, <<"Missing: ", CSV_HEADER_TELEPON>>>>

(* C10: validate_data(record, "NONE") accepts every record, the empty      *)
(* record and the records whose fields are all blank included.             *)
C10_NoneAcceptsEveryRecord ==
  (called = "validate_data" /\ mode = "NONE") => v_result[1] = TRUE

C10_Witness ==
  /\ called = "validate_data"
  /\ mode = "NONE"
  /\ data = << >>
  /\ v_result[1] = TRUE

(* A row holds all nine fields and satisfies the policy of mode m. *)
CompleteAndValid(row, m) ==
  /\ DOMAIN row = Fields
  /\ m \in VALIDATION_MODES
  /\ m # "NONE" => LackedPositions(row, PolicyOf(m)) = {}

(* C8: scrape_all looks at the shutdown flag before each record: no        *)
(* iteration begins once the flag is set, so after that no further link is *)
(* fetched, validated or written; the record in progress is finished (it   *)
(* is counted, and written when valid); and every row of the output is a   *)
(* complete record of nine fields that passed validation.                  *)
C8_ShutdownBetweenRecords ==
  /\ \A k \in 1..Len(begun) : ~begun[k].shutdown /\ begun[k].link = links[k]
  /\ Len(begun) = link_no
  /\ s_pc \in {"for", "done"} => total_processed = Len(begun)
  /\ s_pc \in {"scrape", "validate"} => total_processed = Len(begun) - 1
  /\ Len(rows) = total_saved
  /\ \A k \in 1..Len(rows) : CompleteAndValid(rows[k], VALIDATION_MODE)
  /\ s_pc = "done" => flushed = Len(rows)

(* The flag was set while the first of two records was in progress: that   *)
(* record was finished and written, the second one never begun.            *)
C8_Witness ==
  /\ s_pc = "done"
  /\ shutdown_requested
  /\ Len(links) = 2
  /\ Len(begun) = 1
  /\ total_processed = 1
  /\ Len(rows) = 1
  /\ rows[1][CSV_HEADER_MAP_URL] = links[1]

(* The call sites of find_email_on_website up to the end of the try body. *)
VisitFaultPoints ==
  {"set_short_timeout", "open_tab", "switch_to_tab", "get", "wait_body", "mailto", "regex",
   "visible"}

(* The tab of the visit is closed, nothing else is, and the focus is back. *)
TabReleased ==
  /\ closed = opened
  /\ original_window \in Range(window_handles)
  /\ current_window_handle = original_window

(* C2: whichever driver call of the visit fails (setting the short         *)
(* timeout, opening the tab, switching to it, loading the site, waiting    *)
(* for body, a strategy), when find_email_on_website ends the tab it       *)
(* opened is closed, no other window has been closed, the window focused   *)
(* before the call is still open and has the focus again.                  *)
C2_TabClosedAndFocusRestored ==
  (e_pc \in {"returned", "raised"} /\ faults \subseteq VisitFaultPoints) => TabReleased

(* What does hold: the release is as C2 says when nothing fails before the *)
(* new tab has the focus, that is for failures of the load, of the wait    *)
(* and of the strategies.                                                  *)
TabReleasedOnceTabIsFocused ==
  (e_pc \in {"returned", "raised"}
     /\ faults \subseteq {"get", "wait_body", "mailto", "regex", "visible"}) => TabReleased

StrategyOrder == <<"mailto", "regex", "visible">>

(* C3: the strategies are invoked in the order mailto, regex, visible, a   *)
(* strategy only when all before it found nothing, and the email of the    *)
(* first that finds one is what is returned: after a valid mailto email    *)
(* neither regex nor visible is invoked, after a regex email visible is    *)
(* not.                                                                    *)
C3_StrategiesInOrderShortCircuit ==
  /\ Len(invoked) <= Len(StrategyOrder)
  /\ invoked = SubSeq(StrategyOrder, 1, Len(invoked))
  /\ Len(found) = Len(invoked)
  /\ \A k \in 1..(Len(found) - 1) : found[k] = << >>
  /\ (invoked # << >> /\ e_pc \notin {"regex", "visible"}) =>
       (Last(found) # << >> \/ Len(invoked) = Len(StrategyOrder))
  /\ e_pc = "returned" => e_result = (IF found = << >> THEN << >> ELSE Last(found))

(* The mailto link gave the email although the page source holds one too:  *)
(* only mailto was invoked.                                                *)
C3_Witness ==
  /\ e_pc = "returned"
  /\ web = SiteMailto
  /\ _find_by_regex(web.source, "none") = <<"s", "a", "l", "e", "s", "@", "a", "b", "a", "d", "i", ".", "c", "o">>
  /\ invoked = <<"mailto">>
  /\ e_result = <<"I", "n", "f", "o", "@", "A", "b", "a", "d", "i", ".", "c", "o">>

(* C4: no failure leaves find_email_on_website as an exception; a load     *)
(* that times out or fails gives the empty string; a strategy whose driver *)
(* call fails has found nothing and the strategies after it are invoked.   *)
C4_NoFailurePropagates ==
  /\ e_pc # "raised"
  /\ (e_pc = "returned" /\ faults \cap {"get", "wait_body"} # {}) => e_result = << >>
  /\ (e_pc = "returned" /\ "mailto" \in faults) => (Len(invoked) >= 2 /\ found[1] = << >>)
  /\ (e_pc = "returned" /\ "regex" \in faults) => (Len(invoked) = 3 /\ found[2] = << >>)
  /\ (e_pc = "returned" /\ "visible" \in faults) => (Len(invoked) = 3 /\ found[3] = << >>)

(* What does hold: failures of the load, of the wait and of the strategies *)
(* are swallowed as C4 says.  An exception leaves only from the driver     *)
(* calls outside the try body (lines 180, 220, 226-227).                   *)
FailuresInTryBodyAreSwallowed ==
  /\ e_pc = "raised" => faults \cap {"current_window_handle", "restore_timeout", "fallback"} # {}
  /\ (e_pc = "returned" /\ faults \cap {"get", "wait_body"} # {}) => e_result = << >>
  /\ (e_pc = "returned" /\ "mailto" \in faults) => (Len(invoked) >= 2 /\ found[1] = << >>)
  /\ (e_pc = "returned" /\ "regex" \in faults) => (Len(invoked) = 3 /\ found[2] = << >>)
  /\ (e_pc = "returned" /\ "visible" \in faults) => (Len(invoked) = 3 /\ found[3] = << >>)

(* C11: for a mode that is none of STRICT, MODERATE, LENIENT, NONE (a      *)
(* differently cased "strict" included) validate_data gives for every      *)
(* record what the MODERATE policy gives: it does not accept unchecked.    *)
C11_UnknownModeIsModerate ==
  (called = "validate_data" /\ mode \notin {"STRICT", "MODERATE", "LENIENT", "NONE"})
    => IF LackedPositions(data, ModeratePolicy) = {}
         THEN v_result = <<TRUE, <<"Valid">>>>
         ELSE /\ v_result[1] = FALSE
              /\ IsMissingReason(v_result[2], data, ModeratePolicy)

(* "strict" on a record that lacks only its phone number: STRICT would     *)
(* reject it, MODERATE accepts.                                            *)
C11_Witness ==
  /\ called = "validate_data"
  /\ mode = "strict"
  /\ DOMAIN data = Fields \ {CSV_HEADER_TELEPON}
  /\ v_result = <<TRUE, <<"Valid">>>>

(* C12: with an unrecognized identifier in ScraperConfig.VALIDATION_MODE   *)
(* when scrape_all starts, the run is not aborted: the mode is corrected   *)
(* to MODERATE and the links are processed under the MODERATE policy.      *)
C12_UnknownConfiguredModeCorrected ==
  /\ s_pc # "KeyError"
  /\ s_pc \in {"for", "scrape", "validate", "done"} => VALIDATION_MODE \in VALIDATION_MODES

(* What does hold: the value config.py gives to VALIDATION_MODE is         *)
(* corrected when the module is loaded, and scrape_all is aborted only for *)
(* a value assigned afterwards.                                            *)
ConfigValidAfterModuleLoad ==
  /\ s_pc = "loaded" => VALIDATION_MODE \in VALIDATION_MODES
  /\ s_pc = "KeyError" => /\ VALIDATION_MODE \notin VALIDATION_MODES
                          /\ begun = << >>
                          /\ rows = << >>

(* C13: truncate_fields leaves a value of at most the field's maximum      *)
(* length L as it is and turns a longer one into its first L - 3           *)
(* characters followed by "..."; so no value of the result is longer than  *)
(* L, and the result has the keys of the record.                           *)
C13_TruncateToMaxLength ==
  called = "truncate_fields" =>
    /\ DOMAIN t_result = DOMAIN data
    /\ \A f \in DOMAIN data :
         /\ Len(data[f]) <= MAX_FIELD_LENGTH[f] => t_result[f] = data[f]
         /\ Len(data[f]) > MAX_FIELD_LENGTH[f] =>
              t_result[f] = SubSeq(data[f], 1, MAX_FIELD_LENGTH[f] - 3) \o <<".", ".", ".">>
         /\ Len(t_result[f]) <= MAX_FIELD_LENGTH[f]

(* A record whose name is one character too long, its other fields absent. *)
C13_Witness ==
  /\ called = "truncate_fields"
  /\ DOMAIN data = {CSV_HEADER_NAMA}
  /\ Len(data[CSV_HEADER_NAMA]) = MAX_LENGTH_NAMA + 1
  /\ Len(t_result[CSV_HEADER_NAMA]) = MAX_LENGTH_NAMA
  /\ SubSeq(t_result[CSV_HEADER_NAMA], MAX_LENGTH_NAMA - 2, MAX_LENGTH_NAMA) = <<".", ".", ".">>

(* The comma-separated segments of an address, each one stripped, and      *)
(* whether the last whitespace-delimited token of the last one is all      *)
(* digits.                                                                 *)
Segments(a) == StripEach(Split(a, ","))
EndsInDigitToken(seg) == Words(seg) # << >> /\ AllDigits(Last(Words(seg)))

(* C14: extract_city_from_address never raises; it returns "" for an       *)
(* address of fewer than 2 comma-separated segments, the third-to-last     *)
(* segment when there are more than 2 segments and the last token of the   *)
(* last segment is all digits, and the second-to-last segment in every     *)
(* other case, a last segment that is empty or blank included.             *)
C14_CityBySegmentPosition ==
  f_name = "extract_city_from_address" =>
    LET parts == Segments(f_arg)
    IN  f_ret = IF Len(parts) < 2 THEN << >>
                ELSE IF Len(parts) > 2 /\ EndsInDigitToken(FromEnd(parts, 1))
                       THEN FromEnd(parts, 3)
                       ELSE FromEnd(parts, 2)

(* What the function does: the claimed segment, except that an address     *)
(* whose last segment is empty or blank gives "".                          *)
CityIsEmptyWhenLastSegmentBlank ==
  f_name = "extract_city_from_address" =>
    LET parts == Segments(f_arg)
    IN  f_ret = IF Len(parts) < 2 \/ FromEnd(parts, 1) = << >> THEN << >>
                ELSE IF Len(parts) > 2 /\ EndsInDigitToken(FromEnd(parts, 1))
                       THEN FromEnd(parts, 3)
                       ELSE FromEnd(parts, 2)

BlankLastSegmentReached ==
  /\ f_name = "extract_city_from_address"
  /\ f_arg = <<"a", ",", " ">>
  /\ f_ret = << >>

(* C15: for an address "<street>, <city>, <province> <postal code>", three *)
(* comma-separated segments of which the last ends in an all-digit token,  *)
(* the result of extract_city_from_address contains the city, the second   *)
(* segment.                                                                *)
C15_PostalCodeAddressGivesCity ==
  (/\ f_name = "extract_city_from_address"
   /\ Len(Segments(f_arg)) = 3
   /\ EndsInDigitToken(Segments(f_arg)[3])
   /\ Segments(f_arg)[1] # << >>
   /\ Segments(f_arg)[2] # << >>)
    => IsSubstring(Segments(f_arg)[2], f_ret)

(* The address of the test suite gives its street, not "Bandung". *)
BandungGivesStreet ==
  (f_name = "extract_city_from_address" /\ f_arg = AddressBandung)
    => f_ret = <<"R", "u", "k", "o", " ", "G", "r", "a", "h", "a", " ", "N", "o", ".", "5">>

(* C16: in every reachable state of DataStatistics, get_success_rate() is  *)
(* total_saved / total_processed * 100 when total_processed > 0 and 0 when *)
(* total_processed = 0; it lies in the interval from 0 to 100, and 3 saves *)
(* with 1 skip give 75.                                                    *)
C16_SuccessRateIsPercentage ==
  LET rate == get_success_rate
  IN  /\ rate.den > 0
      /\ total_processed > 0 => rate.num * total_processed = total_saved * 100 * rate.den
      /\ total_processed = 0 => rate.num = 0
      /\ 0 <= rate.num /\ rate.num <= 100 * rate.den
      /\ (total_saved = 3 /\ total_skipped = 1) => rate.num = 75 * rate.den

C16_Witness ==
  /\ total_saved = 3
  /\ total_skipped = 1
  /\ total_processed = 4
  /\ get_success_rate.num = 75 * get_success_rate.den

(* The effect of one add_saved() and of one add_skipped(r) on the four     *)
(* attributes.                                                             *)
SavedEffect ==
  /\ total_processed' = total_processed + 1
  /\ total_saved' = total_saved + 1
  /\ total_skipped' = total_skipped
  /\ skip_reasons' = skip_reasons

SkippedEffect(r) ==
  /\ total_processed' = total_processed + 1
  /\ total_skipped' = total_skipped + 1
  /\ total_saved' = total_saved
  /\ DOMAIN skip_reasons' = DOMAIN skip_reasons \cup {r}
  /\ skip_reasons'[r] = IF r \in DOMAIN skip_reasons THEN skip_reasons[r] + 1 ELSE 1
  /\ \A o \in DOMAIN skip_reasons \ {r} : skip_reasons'[o] = skip_reasons[o]

NothingDecreases ==
  /\ total_processed' >= total_processed
  /\ total_saved' >= total_saved
  /\ total_skipped' >= total_skipped
  /\ \A o \in DOMAIN skip_reasons : o \in DOMAIN skip_reasons' /\ skip_reasons'[o] >= skip_reasons[o]

(* C17: every DataStatistics operation only increments.  add_saved raises  *)
(* total_processed and total_saved by exactly 1 and leaves total_skipped   *)
(* and skip_reasons; add_skipped(r) raises total_processed, total_skipped  *)
(* and the count of r by exactly 1, creating r at 1 if it is new, and      *)
(* leaves total_saved and the other reasons; nothing ever decreases.       *)
C17_OperationsOnlyIncrement ==
  [][/\ total_saved' # total_saved => SavedEffect
     /\ total_saved' = total_saved => \E r \in Reasons : SkippedEffect(r)
     /\ NothingDecreases]_vars

(* Both operations have acted, one reason counted twice and a second one   *)
(* created.                                                                *)
C17_Witness ==
  /\ total_saved >= 1
  /\ Cardinality(DOMAIN skip_reasons) >= 2
  /\ \E r \in DOMAIN skip_reasons : skip_reasons[r] = 2

(* C18: the record scrape_detail_page returns, whatever driver call fails  *)
(* midway, has all nine fields, its mapUrl is the URL it was called with,  *)
(* and its email is non-empty only if its websiteUrl is non-empty.  The    *)
(* record is observed as scrape_all holds it, after truncate_fields, which *)
(* keeps the keys, the URLs of the model and the emptiness of a value.     *)
C18_RecordShapeWhateverFails ==
  s_pc = "validate" =>
    /\ DOMAIN s_data = Fields
    /\ s_data[CSV_HEADER_MAP_URL] = links[link_no]
    /\ s_data[CSV_HEADER_EMAIL] # << >> => s_data[CSV_HEADER_WEBSITE] # << >>
    /\ scrape_detail_page(links[link_no], site[link_no])[CSV_HEADER_MAP_URL] = links[link_no]

(* driver.get has failed for the second link: the record is the initial    *)
(* one; and the email lookup has raised for the first: the fields read     *)
(* before it are kept.                                                     *)
C18_Witness ==
  /\ s_pc = "validate"
  /\ link_no = 2
  /\ site[1] = PageEmailRaises
  /\ rows # << >>
  /\ rows[1][CSV_HEADER_WEBSITE] # << >> /\ rows[1][CSV_HEADER_EMAIL] = << >>
  /\ site[2] = PageGetFails
  /\ s_data = EmptyRecord(links[2])

(* C19: during scrape_all the file is flushed every FLUSH_INTERVAL         *)
(* accepted rows: between two records fewer than FLUSH_INTERVAL accepted   *)
(* rows have been written since the last flush; and skipped records never  *)
(* trigger or delay a flush: what is flushed is the accepted rows up to    *)
(* the last multiple of FLUSH_INTERVAL, however many records were skipped. *)
C19_FlushEveryIntervalRows ==
  s_pc \in {"for", "scrape", "validate"} =>
    /\ Len(rows) = total_saved
    /\ Len(rows) - flushed < FLUSH_INTERVAL
    /\ flushed = Len(rows) - (Len(rows) % FLUSH_INTERVAL)

(* The second flush, at the twentieth accepted row, one record skipped     *)
(* before it.                                                              *)
C19_Witness ==
  /\ s_pc = "for"
  /\ total_skipped = 1
  /\ Len(rows) = 2 * FLUSH_INTERVAL
  /\ flushed = 2 * FLUSH_INTERVAL
  /\ link_no = 2 * FLUSH_INTERVAL + 1

(* The candidates of a text in document order, and the positions of those  *)
(* that pass validate_email.                                               *)
Candidates(text) == FindAll(Lower(text))
Passing(cands) == {k \in 1..Len(cands) : validate_email(cands[k])}

FirstPassing(cands, passing, result) ==
  IF passing = {}
    THEN result = NoneText
    ELSE \E k \in passing : (\A j \in passing : k <= j) /\ result = cands[k]

C21_ValidIffGrammarAndNoBlacklistNoImage ==
  f_name = "validate_email" =>
    (f_ret <=> /\ FullMatch(f_arg)
               /\ ~\E b \in EMAIL_BLACKLIST : IsSubstring(b, Lower(f_arg))
               /\ ~\E x \in EMAIL_IMAGE_EXTENSIONS : IsSubstring(x, Lower(f_arg)))

(* What the function does: the same, but for a candidate with a newline    *)
(* after a string of the grammar, which it accepts, and for one of more    *)
(* than EMAIL_MAX_LENGTH characters, which it rejects.                     *)
ValidIffGrammarUpToNewlineAndLength ==
  f_name = "validate_email" =>
    (f_ret <=> /\ Len(f_arg) <= EMAIL_MAX_LENGTH
               /\ \/ FullMatch(f_arg)
                  \/ f_arg # << >> /\ Last(f_arg) = "\n" /\ FullMatch(SubSeq(f_arg, 1, Len(f_arg) - 1))
               /\ ~\E b \in EMAIL_BLACKLIST : IsSubstring(b, Lower(f_arg))
               /\ ~\E x \in EMAIL_IMAGE_EXTENSIONS : IsSubstring(x, Lower(f_arg)))

ContestAddressIsRejected ==
  (f_name = "validate_email" /\ f_arg = <<"u", "s", "e", "r", "@", "c", "o", "n", "t", "e", "s", "t", ".", "c", "o", "m">>) => f_ret = FALSE

TrailingNewlineReached ==
  /\ f_name = "validate_email"
  /\ f_arg = <<"u", "s", "e", "r", "@", "c", "o", "m", "p", "a", "n", "y", ".", "c", "o", "m">> \o <<"\n">>
  /\ f_ret = TRUE

(* A string that is lower-case, has no whitespace and no two consecutive   *)
(* underscores, and neither begins nor ends with an underscore.            *)
IsCleanFilename(s) ==
  /\ \A k \in 1..Len(s) : LowerChar(s[k]) = s[k] /\ s[k] \notin Whitespace
  /\ \A k \in 1..(Len(s) - 1) : ~(s[k] = "_" /\ s[k + 1] = "_")
  /\ s # << >> => s[1] # "_" /\ s[Len(s)] # "_"

(* C22, as stated: for every text and every max_length, sanitize_filename  *)
(* returns a string of length at most max_length that is lower-case, has   *)
(* no whitespace and no two consecutive underscores, and neither begins    *)
(* nor ends with an underscore.                                            *)
C22_SanitizedWithinAnyMaxLength ==
  f_name = "sanitize_filename" =>
    /\ Len(f_ret) <= f_arg.max_length
    /\ IsCleanFilename(f_ret)

(* C22, amended: the same for every text and every max_length of at least  *)
(* 0; no string has a length below 0.                                      *)
C22_SanitizedWithinMaxLength ==
  (f_name = "sanitize_filename" /\ f_arg.max_length >= 0) =>
    /\ Len(f_ret) <= f_arg.max_length
    /\ IsCleanFilename(f_ret)

(* The cut at max_length leaves an underscore at the end, which is         *)
(* stripped.                                                               *)
C22_Witness ==
  /\ f_name = "sanitize_filename"
  /\ f_arg = [text |-> <<"B", "\t", " ", "a">>, max_length |-> 2]
  /\ f_ret = <<"b">>

(* The positions of run_calls at which the driver is quit, and at which a  *)
(* detail page is fetched.                                                 *)
QuitPositions == {k \in 1..Len(run_calls) : run_calls[k].call = "quit"}
DetailPositions == {k \in 1..Len(run_calls) : run_calls[k].call = "get detail"}

(* C23: on every exit path of run (driver setup failure, search failure    *)
(* after its retries, no links found, failure during scraping, normal      *)
(* completion) the browser is released: if a driver was created it is quit *)
(* exactly once, after the last use of the driver; and after a fatal setup *)
(* or search failure no detail page is scraped.                            *)
C23_DriverQuitOnceOnEveryExit ==
  /\ Cardinality(QuitPositions) <= 1
  /\ QuitPositions # {} => QuitPositions = {Len(run_calls)}
  /\ run_driver = "None" => run_calls = << >>
  /\ run_exit \in {"setup failure", "search failure"} => DetailPositions = {}
  /\ run_pc = "returned" =>
       /\ run_exit \in {"setup failure", "search failure", "no links", "collect failure",
                        "scrape failure", "complete"}
       /\ run_driver # "None" => QuitPositions = {Len(run_calls)}

(* The driver was created and a later line of setup_driver raised: run has *)
(* returned with the driver quit, although closing the extra tabs failed.  *)
C23_Witness ==
  /\ run_pc = "returned"
  /\ run_exit = "setup failure"
  /\ run_calls = <<Use("set_page_load_timeout", FALSE), Use("window_handles", FALSE),
                   Use("quit", TRUE)>>

(* C24: in scrape_all truncation comes before validation and the row       *)
(* written is the truncated record: every row written passed validate_data *)
(* under the policy of the run and has every field within its maximum      *)
(* length.                                                                 *)
C24_RowsValidatedAndWithinLength ==
  \A k \in 1..Len(rows) :
    /\ validate_data(rows[k], VALIDATION_MODE)[1]
    /\ \A f \in Fields : Len(rows[k][f]) <= MAX_FIELD_LENGTH[f]

(* The page with the over-long name has been written, its name cut. *)
C24_Witness ==
  /\ rows # << >>
  /\ site[1] = PageLongName
  /\ Len(safe_find_element(PageLongName.name)) > MAX_LENGTH_NAMA
  /\ Len(rows[1][CSV_HEADER_NAMA]) = MAX_LENGTH_NAMA
  /\ SubSeq(rows[1][CSV_HEADER_NAMA], MAX_LENGTH_NAMA - 2, MAX_LENGTH_NAMA) = Ellipsis

(* C25: the short page-load timeout of the email lookup is in effect only  *)
(* during a website visit: after every call of find_email_on_website, on   *)
(* every exit path, the page-load timeout of the driver is the normal one  *)
(* that was in effect before the call.                                     *)
C25_TimeoutRestoredOnEveryExit ==
  e_pc \in {"returned", "raised"} => page_load_timeout = PAGE_LOAD_TIMEOUT

(* What does hold: the timeout is the normal one before the visit and      *)
(* after it on every path on which the restoring call of line 220 does not *)
(* itself raise, and it is never anything but the normal or the short one. *)
TimeoutRestoredUnlessRestoreRaises ==
  /\ page_load_timeout \in {PAGE_LOAD_TIMEOUT, EMAIL_PAGE_LOAD_TIMEOUT}
  /\ e_pc \in {"call", "set_short_timeout"} => page_load_timeout = PAGE_LOAD_TIMEOUT
  /\ (e_pc \in {"close", "switch_back", "fallback", "return", "returned"}
        \/ (e_pc = "raised" /\ "restore_timeout" \notin faults))
       => page_load_timeout = PAGE_LOAD_TIMEOUT

ShortTimeoutLeftBehind ==
  /\ e_pc = "raised"
  /\ faults = {"restore_timeout"}
  /\ page_load_timeout = EMAIL_PAGE_LOAD_TIMEOUT

(* sum(d.values()) *)
RECURSIVE SumValues(_, _)
SumValues(d, keys) ==
  IF keys = {} THEN 0
  ELSE LET k == CHOOSE k \in keys : TRUE IN d[k] + SumValues(d, keys \ {k})

(* C26: after any sequence of add_saved and add_skipped calls the counts   *)
(* in skip_reasons add up to total_skipped, and every reason present has a *)
(* count of at least 1.                                                    *)
C26_ReasonCountsSumToSkipped ==
  /\ SumValues(skip_reasons, DOMAIN skip_reasons) = total_skipped
  /\ \A r \in DOMAIN skip_reasons : skip_reasons[r] >= 1

(* Three skips for two reasons, among saves. *)
C26_Witness ==
  /\ total_skipped = 3
  /\ total_saved = 2
  /\ Cardinality(DOMAIN skip_reasons) = 2
  /\ \E r \in DOMAIN skip_reasons : skip_reasons[r] = 2

(* C27: in scrape_all each link is processed at most once and in list      *)
(* order, with exactly one of add_saved and add_skipped per processed      *)
(* link: between two records total_processed is the number of links        *)
(* consumed and the number of rows written is total_saved; when the loop   *)
(* ends without a shutdown request total_processed is the number of links. *)
C27_OneCountPerLinkInOrder ==
  /\ Len(begun) = link_no
  /\ \A k \in 1..Len(begun) : begun[k].link = links[k]
  /\ s_pc \in {"for", "done"} =>
       /\ total_processed = link_no
       /\ total_processed = total_saved + total_skipped
       /\ Len(rows) = total_saved
  /\ s_pc \in {"scrape", "validate"} => total_processed = link_no - 1
  /\ (s_pc = "done" /\ ~shutdown_requested) => total_processed = Len(links)

(* The loop has ended without a shutdown request after two links, one      *)
(* saved and one skipped.                                                  *)
C27_Witness ==
  /\ s_pc = "done"
  /\ ~shutdown_requested
  /\ Len(links) = 2
  /\ total_processed = 2
  /\ total_saved = 1
  /\ total_skipped = 1
  /\ Len(rows) = 1

(* C28: every non-empty string find_email_on_website returns, whichever of *)
(* the three strategies produced it, satisfies validate_email.             *)
C28_ReturnedEmailIsValid ==
  /\ \A k \in 1..Len(found) : found[k] # << >> => validate_email(found[k])
  /\ (e_pc = "returned" /\ e_result # << >>) => validate_email(e_result)

(* The page source holds an image file name shaped like an address before  *)
(* the address that is returned.                                           *)
C28_Witness ==
  /\ e_pc = "returned"
  /\ web = SiteRegex
  /\ invoked = <<"mailto", "regex">>
  /\ e_result = <<"s", "a", "l", "e", "s", "@", "a", "b", "a", "d", "i", ".", "c", "o">>
  /\ ~validate_email(<<"l", "o", "g", "o", "@", "2", "x", ".", "p", "n", "g">>)

(* The consequence for scrape_all, the lookup being a page's email: a      *)
(* non-empty email of a written row is a valid email of a page of the run, *)
(* or its truncation.                                                      *)
PersistedEmailIsLookupResultOrItsTruncation ==
  \A k \in 1..Len(rows) :
    rows[k][CSV_HEADER_EMAIL] # << >> =>
      \E j \in 1..Len(links) :
        /\ validate_email(site[j].email)
        /\ rows[k][CSV_HEADER_EMAIL] = TruncateValue(site[j].email, MAX_LENGTH_EMAIL)

(* C29: truncation never changes the validation outcome: for every record, *)
(* values that are over-long and only whitespace included, and every       *)
(* policy, validate_data(truncate_fields(r), mode) gives the decision and  *)
(* the reason that validate_data(r, mode) gives.                           *)
C29_TruncationKeepsValidationOutcome ==
  called = "validate_data" => validate_data(truncate_fields(data), mode) = v_result

(* The fields of a record whose value is only whitespace and longer than   *)
(* the maximum of the field.                                               *)
OverlongBlankFields(d) ==
  {f \in DOMAIN d : Len(d[f]) > MAX_FIELD_LENGTH[f] /\ Strip(d[f]) = << >>}

(* What does hold: the outcome is kept for every record none of whose      *)
(* values is over-long and only whitespace; such a value, counted as       *)
(* missing before truncation, ends in "..." after it and counts as filled. *)
OutcomeKeptWithoutOverlongBlank ==
  (called = "validate_data" /\ OverlongBlankFields(data) = {})
    => validate_data(truncate_fields(data), mode) = v_result

OverlongBlankBecomesFilled ==
  /\ called = "validate_data"
  /\ mode = VALIDATION_MODE_MODERATE
  /\ OverlongBlankFields(data) = {CSV_HEADER_EMAIL}
  /\ v_result[1] = FALSE
  /\ validate_data(truncate_fields(data), mode) = <<TRUE, <<"Valid">>>>

(* C30: for every max_retries, 0 and negative values included, a call of a *)
(* function wrapped by retry_on_failure invokes the function at least      *)
(* once, and what the wrapper raises is an exception the function raised.  *)
C30_CalledAtLeastOnceAndRaisesItsOwn ==
  r_pc \in {"returned", "raised"} =>
    /\ Len(Calls) >= 1
    /\ r_pc = "raised" => r_outcome \in FuncExceptions

(* What does hold: the same for max_retries of at least 1; for a           *)
(* max_retries of 0 or less the function is never invoked and the wrapper  *)
(* raises TypeError, from "raise None".                                    *)
CalledAndRaisesItsOwnForPositiveRetries ==
  /\ (r_pc \in {"returned", "raised"} /\ max_retries >= 1) =>
       /\ Len(Calls) >= 1
       /\ r_pc = "raised" => r_outcome \in FuncExceptions
  /\ (r_pc \in {"returned", "raised"} /\ max_retries < 1) =>
       /\ Calls = << >>
       /\ r_pc = "raised"
       /\ r_outcome = TypeError

NoCallWithZeroRetries ==
  /\ max_retries = 0
  /\ r_pc = "raised"
  /\ events = << >>
  /\ r_outcome = TypeError

====
